---- MODULE Spec2Model ----
(***************************************************************************)
(* Session management of the `ai` command line (powershell-agent).         *)
(*                                                                         *)
(* Every CLI invocation is one process with its own SessionManager; all   *)
(* processes share the session files under ~/.claude-sessions/sessions.    *)
(* A step of the model is one awaited I/O operation (readFile, writeFile,  *)
(* unlink, one engine event) together with the synchronous code around it. *)
(* Time is counted in ticks, MsPerDay ticks to the day; the clock moves    *)
(* only between steps.  Money is counted in millionths of a dollar.        *)
(***************************************************************************)
EXTENDS Integers, Sequences, FiniteSets, TLC

VARIABLES
    store,              \* sessionsDir: session name -> file content
    config,             \* config.json: content or NoFile
    dirs,               \* the three directories exist
    now,                \* the system clock
    nextId,             \* supply of randomUUID()
    runs,               \* number of CLI invocations started so far (in SpecAPI:
                        \* of calls made to the SessionManager)
    pc,                 \* per process: position in main()
    opts,               \* per process: parsed CLIOptions
    session,            \* per process: the `session` object of executeQuery
    activeSession,      \* per process: SessionManager.activeSession (alias of session)
    lastFailedQuestion, \* per process: SessionManager.lastFailedQuestion
    sessions,           \* per process: the `sessions` list being deleted from
    message,            \* per process: the result message executeQuery received, or null
    exitCode,           \* per process: argument of process.exit
    resolved,           \* per process: the record as getActiveSession returned it
    sdkOptions,         \* per process: the options of the query submitted to the
                        \* engine, or null
    firstId,            \* per name: id returned by the first resolution without forceNew
                        \* since the name was last deleted or reset by forceNew (0: none)
    returned            \* per process: the last call made to the SessionManager from
                        \* outside the CLI and the value it returned, or null

vars == <<store, config, dirs, now, nextId, runs, pc, opts, session,
          activeSession, lastFailedQuestion, sessions, message, exitCode,
          resolved, sdkOptions, firstId, returned>>

----------------------------------------------------------------------------
(* Bounds *)

MaxTime == 1
MaxRuns == 3

Procs == {"A", "B"}
Names == {"global", "topic-a"}
Questions == {"q1"}

\* process.env.POWERSHELL_PID || process.env.PPID of each process
ShellPID == [p \in Procs |-> IF p = "A" THEN "1" ELSE "2"]

\* the files sessionsDir can hold: <name>.json of the named sessions and of
\* the shell sessions of the process ids
Files == Names \cup {"shell-" \o ShellPID[p] : p \in Procs}

----------------------------------------------------------------------------
(* Values *)

\* a missing file, the null object, the null string
NoFile == [file |-> FALSE]
\* a rejected promise: the error the caller catches
Thrown(error) == [thrown |-> error]

\* a file whose text JSON.parse rejects
Corrupt == [file |-> TRUE, json |-> FALSE]
Null == [object |-> FALSE]
NullString == "null"
Undefined == "undefined"
Absent == "absent"
NoName == ""
\* activeSession refers to the session object of the process
Ref == [object |-> TRUE]
\* an optional number: undefined in memory, left out of the JSON text
UndefinedNumber == [undefined |-> TRUE]
AbsentNumber == [absent |-> TRUE]
Running == -1

\* (1000 * 60 * 60 * 24) in clock ticks
MsPerDay == 2

\* result messages of the engine: a success that reports its usage and an
\* error that reports none
Results ==
    {[num_turns |-> 1, usage |-> [input_tokens |-> 20, output_tokens |-> 30],
      is_error |-> FALSE],
     [num_turns |-> 2, usage |-> Null, is_error |-> TRUE]}

\* the session id the engine issues to each process
SessionId == [p \in Procs |-> IF p = "A" THEN "T1" ELSE "T2"]

\* cost of one token in millionths of a dollar: (1 / 1000) * 0.003 and (1 / 1000) * 0.015
costPer1kInput == 3
costPer1kOutput == 15

DEFAULT_CONFIG ==
    [autoCleanup |-> TRUE,
     shellSessionExpiry |-> [digits |-> 7, rest |-> "d"],
     namedSessionExpiry |-> [digits |-> 30, rest |-> "d"]]

\* config.json as a user may have edited it (the sessions sub-settings)
UserConfigs ==
    {[autoCleanup |-> TRUE,
      shellSessionExpiry |-> [digits |-> 1, rest |-> "d"],
      namedSessionExpiry |-> [digits |-> 0, rest |-> "d"]]}

\* Processes are interchangeable: a new invocation takes slot "A" when it is
\* free and slot "B" only while "A" is running
FirstFree(p) == p = "B" => pc["A"] \notin {"idle", "done"}

\* parseInt of an expiry string such as "7d": the leading digits
parseInt(s) == s.digits

\* parseInt of the decimal string of a process id: the number
parseIntPID(s) == [number |-> CASE s = "1" -> 1 [] s = "2" -> 2]

----------------------------------------------------------------------------
(* Serialisation of a SessionMetadata *)

\* a toJSON that writes the date without the time of day
toISOString_DateOnly(t) == [iso |-> (t \div MsPerDay) * MsPerDay]

\* Date.toJSON / new Date(string)
toISOString(t) == [iso |-> t]
NewDate(s) == s.iso

\* JSON.stringify(session): dates become strings, undefined members are dropped
Stringify(s) ==
    [id |-> s.id, name |-> s.name, type |-> s.type,
     sdkSessionId |-> IF s.sdkSessionId = Undefined THEN Absent ELSE s.sdkSessionId,
     created |-> toISOString(s.created), lastUsed |-> toISOString(s.lastUsed),
     messageCount |-> s.messageCount, totalTokens |-> s.totalTokens,
     totalCost |-> s.totalCost,
     powerShellPID |-> IF s.powerShellPID = UndefinedNumber THEN AbsentNumber
                       ELSE s.powerShellPID,
     active |-> s.active]

\* JSON.parse(data) followed by the conversion of the two dates
ParseSession(f) ==
    [id |-> f.id, name |-> f.name, type |-> f.type,
     sdkSessionId |-> IF f.sdkSessionId = Absent THEN Undefined ELSE f.sdkSessionId,
     created |-> NewDate(f.created), lastUsed |-> NewDate(f.lastUsed),
     messageCount |-> f.messageCount, totalTokens |-> f.totalTokens,
     totalCost |-> f.totalCost,
     powerShellPID |-> IF f.powerShellPID = AbsentNumber THEN UndefinedNumber
                       ELSE f.powerShellPID,
     active |-> f.active]

\* a loadSessionFromDisk that reads from the wrong path and never finds a file
loadSessionFromDisk_Missing(st, sessionName) == Null

\* loadSessionFromDisk: the parsed record, or null when readFile or
\* JSON.parse throws (the file is missing or its text is not JSON)
loadSessionFromDisk(st, sessionName) ==
    IF st[sessionName] = NoFile \/ st[sessionName] = Corrupt THEN Null
    ELSE ParseSession(st[sessionName])

\* a saveSession that opens the file with the exclusive flag "wx"
saveSession_Exclusive(st, s) ==
    IF st[s.name] = NoFile THEN [st EXCEPT ![s.name] = Stringify(s)] ELSE st

\* a saveSession whose write never reaches the disk
saveSession_Skipped(st, s) == st

\* saveSession: the store after writeFile
saveSession(st, s) == [st EXCEPT ![s.name] = Stringify(s)]

\* a createSession that counts the creating message
NewSession_Counted(id, name, type, powerShellPID, t) ==
    [id |-> id, name |-> name, type |-> type, sdkSessionId |-> Undefined,
     created |-> t, lastUsed |-> t,
     messageCount |-> 1, totalTokens |-> 0, totalCost |-> 0,
     powerShellPID |-> powerShellPID, active |-> TRUE]

\* the object literal of createSession
NewSession(id, name, type, powerShellPID, t) ==
    [id |-> id, name |-> name, type |-> type, sdkSessionId |-> Undefined,
     created |-> t, lastUsed |-> t,
     messageCount |-> 0, totalTokens |-> 0, totalCost |-> 0,
     powerShellPID |-> powerShellPID, active |-> TRUE]

----------------------------------------------------------------------------
(* SessionManager *)

\* getSessionPath: the file of a session name inside sessionsDir
getSessionPath(sessionName) == sessionName \o ".json"

\* fs.readdir(sessionsDir): the directory entries in directory order (the
\* entries of the files that do not exist are skipped by the load)
Readdir == <<getSessionPath("global"), getSessionPath("shell-1"),
             getSessionPath("shell-2"), getSessionPath("topic-a"),
             getSessionPath("v1.jsonl")>>

\* the texts before and after the first ".json" of a directory entry
BeforeJson == {"global", "shell-1", "shell-2", "topic-a", "v1"}
AfterJson == {"", "l.json"}

\* file.replace('.json', ''): the entry without its first ".json"
ReplaceJson(file) ==
    LET cut == CHOOSE c \in BeforeJson \X AfterJson : file = c[1] \o ".json" \o c[2]
    IN  cut[1] \o cut[2]

\* the session name listAllSessions loads for each directory entry
SessionNameOf == [i \in DOMAIN Readdir |-> ReplaceJson(Readdir[i])]

RECURSIVE SortByLastUsed(_, _)
\* Array.prototype.sort with (a, b) => b.lastUsed - a.lastUsed: a stable sort,
\* most recent first, equal keys in the order they were pushed
SortByLastUsed(st, left) ==
    IF left = {} THEN <<>>
    ELSE LET first == CHOOSE i \in left : \A j \in left \ {i} :
                          \/ NewDate(st[SessionNameOf[i]].lastUsed)
                               > NewDate(st[SessionNameOf[j]].lastUsed)
                          \/ /\ NewDate(st[SessionNameOf[i]].lastUsed)
                                  = NewDate(st[SessionNameOf[j]].lastUsed)
                             /\ i < j
         IN  <<ParseSession(st[SessionNameOf[first]])>>
             \o SortByLastUsed(st, left \ {first})

\* listAllSessions: the record of every directory entry whose session name
\* loads, most recently used first; the empty list when the sessions
\* directory does not exist
listAllSessions(st, d) ==
    IF ~d THEN <<>>
    ELSE SortByLastUsed(st, {i \in DOMAIN Readdir :
                                /\ SessionNameOf[i] \in DOMAIN st
                                /\ loadSessionFromDisk(st, SessionNameOf[i]) # Null})

\* a shouldDelete that compares the whole days elapsed
shouldDelete_WholeDays(s, cfg, t) ==
    \/ /\ s.type = "shell"
       /\ (t - s.lastUsed) \div MsPerDay > parseInt(cfg.shellSessionExpiry)
    \/ /\ s.type = "named"
       /\ (t - s.lastUsed) \div MsPerDay > parseInt(cfg.namedSessionExpiry)

\* the shouldDelete decision of cleanupExpiredSessions for one listed record
shouldDelete(s, cfg, t) ==
    \/ /\ s.type = "shell"
       /\ (t - s.lastUsed) > parseInt(cfg.shellSessionExpiry) * MsPerDay
    \/ /\ s.type = "named"
       /\ (t - s.lastUsed) > parseInt(cfg.namedSessionExpiry) * MsPerDay

\* names of the elements of a list of records
RECURSIVE NamesOf(_)
NamesOf(list) ==
    IF list = <<>> THEN <<>> ELSE <<Head(list).name>> \o NamesOf(Tail(list))

\* the records of a list the sweep decides to delete, in list order
RECURSIVE Expired(_, _, _)
Expired(list, cfg, t) ==
    IF list = <<>> THEN <<>>
    ELSE (IF shouldDelete(Head(list), cfg, t) THEN <<Head(list)>> ELSE <<>>)
         \o Expired(Tail(list), cfg, t)

\* getActiveSession: the branch taken for a SessionSelectionOptions
Branch(sel) ==
    IF sel.sessionName # NoName THEN "named"
    ELSE IF sel.type = "shell" /\ sel.shellPID # NoName THEN "shell"
    ELSE IF sel.type = "named" /\ sel.sessionName # NoName THEN "named"
    ELSE "global"

\* a getShellSession that names every shell session alike
TargetName_OneShell(sel) ==
    CASE Branch(sel) = "named" -> sel.sessionName
      [] Branch(sel) = "shell" -> "shell-1"
      [] OTHER -> "global"

\* name of the record the branch loads or creates
TargetName(sel) ==
    CASE Branch(sel) = "named" -> sel.sessionName
      [] Branch(sel) = "shell" -> "shell-" \o sel.shellPID
      [] OTHER -> "global"

\* powerShellPID of the created record: parseInt(shellPID) for a shell
\* session, undefined for the others
TargetPID(sel) ==
    IF Branch(sel) = "shell" THEN parseIntPID(sel.shellPID) ELSE UndefinedNumber

\* a getNamedSession that ignores forceNew
SkipsLoad_Never(sel) == FALSE

\* getNamedSession with forceNew creates without loading
SkipsLoad(sel) == Branch(sel) = "named" /\ sel.forceNew

----------------------------------------------------------------------------
(* The command line *)

\* parseArgs: cmd is the branch of main the arguments select (first match
\* first), with the options that branch reads; the others are left unset
CLIOptionsSet ==
    {[cmd |-> c, session |-> NoName, newSession |-> NoName, noHistory |-> FALSE,
      question |-> NoName] :
        c \in {"help", "version", "configShow", "listSessions", "clearAll",
               "retry", "none"}}
    \cup
    {[cmd |-> "none", session |-> NoName, newSession |-> "topic-a",
      noHistory |-> FALSE, question |-> NoName]}
    \cup
    {[cmd |-> c, session |-> s, newSession |-> NoName, noHistory |-> FALSE,
      question |-> NoName] :
        c \in {"sessionInfo", "clear", "export"}, s \in {NoName, "topic-a"}}
    \cup
    {o \in {[cmd |-> "query", session |-> s, newSession |-> n, noHistory |-> h,
              question |-> q] :
                s \in {NoName, "topic-a"}, n \in Names \cup {NoName},
                h \in BOOLEAN, q \in Questions} :
        o.session = NoName \/ o.newSession = NoName}

\* the SessionSelectionOptions executeQuery builds
QuerySelection(p) ==
    [sessionName |-> IF opts[p].session # NoName THEN opts[p].session
                     ELSE opts[p].newSession,
     shellPID |-> ShellPID[p],
     type |-> IF opts[p].newSession # NoName THEN "named" ELSE "auto",
     forceNew |-> opts[p].newSession # NoName]

\* formatSessionInfo(sessionName): the record under the name when a name is
\* given, the active session otherwise; the text for no record
NoActiveSession == [text |-> "No active session."]

formatSessionInfo(st, active, sessionName) ==
    LET found == IF sessionName # NoName THEN loadSessionFromDisk(st, sessionName)
                 ELSE active
    IN  IF found = Null THEN NoActiveSession
        ELSE [text |-> "Session Information", of |-> found]

\* sessionName of --clear and --export
CommandTarget(p) ==
    IF opts[p].session # NoName THEN opts[p].session
    ELSE IF activeSession[p] # Null THEN session[p].name
    ELSE "global"

Init ==
    /\ store = [n \in Files |-> NoFile]
    /\ config \in UserConfigs \cup {NoFile}
    /\ dirs = (config # NoFile)
    /\ now = 0
    /\ nextId = 1
    /\ runs = 0
    /\ pc = [p \in Procs |-> "idle"]
    /\ opts = [p \in Procs |-> Null]
    /\ session = [p \in Procs |-> Null]
    /\ activeSession = [p \in Procs |-> Null]
    /\ lastFailedQuestion = [p \in Procs |-> NullString]
    /\ sessions = [p \in Procs |-> <<>>]
    /\ message = [p \in Procs |-> Null]
    /\ exitCode = [p \in Procs |-> Running]
    /\ resolved = [p \in Procs |-> Null]
    /\ sdkOptions = [p \in Procs |-> Null]
    /\ firstId = [n \in Files |-> 0]
    /\ returned = [p \in Procs |-> Null]

\* an exit after which the next run of the slot still sees the pointer
Exit_KeepsPointer(p, code) ==
    /\ pc' = [pc EXCEPT ![p] = "done"]
    /\ exitCode' = [exitCode EXCEPT ![p] = code]
    /\ opts' = [opts EXCEPT ![p] = Null]
    /\ sessions' = [sessions EXCEPT ![p] = <<>>]
    /\ message' = [message EXCEPT ![p] = Null]
    /\ resolved' = [resolved EXCEPT ![p] = Null]
    /\ sdkOptions' = [sdkOptions EXCEPT ![p] = Null]
    /\ UNCHANGED <<session, activeSession>>

\* process.exit(code): the process and its memory are gone, the exit code
\* and (for inspection) the retry slot remain
Exit(p, code) ==
    /\ pc' = [pc EXCEPT ![p] = "done"]
    /\ exitCode' = [exitCode EXCEPT ![p] = code]
    /\ opts' = [opts EXCEPT ![p] = Null]
    /\ session' = [session EXCEPT ![p] = Null]
    /\ activeSession' = [activeSession EXCEPT ![p] = Null]
    /\ sessions' = [sessions EXCEPT ![p] = <<>>]
    /\ message' = [message EXCEPT ![p] = Null]
    /\ resolved' = [resolved EXCEPT ![p] = Null]
    /\ sdkOptions' = [sdkOptions EXCEPT ![p] = Null]

\* the system clock advances
Tick ==
    /\ now < MaxTime
    /\ now' = now + 1
    /\ UNCHANGED <<store, config, dirs, nextId, runs, pc, opts, session,
                   activeSession, lastFailedQuestion, sessions, message,
                   exitCode, resolved, sdkOptions, firstId, returned>>

----------------------------------------------------------------------------
(* deleteSession and the sweep *)

\* a deleteSession that returns true whatever unlink did
Deleted_Always(sessionName) == TRUE

\* deleteSession returns true exactly when unlink found the file
Deleted(sessionName) == store[sessionName] # NoFile

\* deleteSession: the store after unlink
deleteSession(sessionName) ==
    IF Deleted(sessionName)
    THEN /\ store' = [store EXCEPT ![sessionName] = NoFile]
         /\ firstId' = [firstId EXCEPT ![sessionName] = 0]
    ELSE UNCHANGED <<store, firstId>>

\* a deleteSession that leaves activeSession alone
ActiveAfterDelete_Keeps(p, sessionName) == activeSession[p]

\* deleteSession: activeSession is cleared when it names the deleted record
ActiveAfterDelete(p, sessionName) ==
    IF Deleted(sessionName) /\ activeSession[p] # Null /\ session[p].name = sessionName
    THEN Null ELSE activeSession[p]

\* loadConfig as the first call of a process: ensureDirectories, then read
\* config.json or write the defaults
LoadedConfig == IF config = NoFile THEN DEFAULT_CONFIG ELSE config

\* A new process with a fresh SessionManager runs main up to the loop of
\* cleanupExpiredSessions: parseArgs, --help and --version, then the
\* configuration is loaded, the sessions are listed, the clock is read and
\* the records to delete are decided
Start(p) ==
    /\ pc[p] \in {"idle", "done"}
    /\ FirstFree(p)
    /\ runs < MaxRuns
    /\ runs' = runs + 1
    /\ lastFailedQuestion' = [lastFailedQuestion EXCEPT ![p] = NullString]
    /\ \E o \in CLIOptionsSet :
        IF o.cmd \in {"help", "version"}
        THEN /\ Exit(p, 0)
             /\ UNCHANGED <<config, dirs>>
        ELSE LET cfg == LoadedConfig
                 expired == IF cfg.autoCleanup
                            THEN NamesOf(Expired(listAllSessions(store, TRUE), cfg, now))
                            ELSE <<>>
             IN  /\ dirs' = TRUE
                 /\ config' = cfg
                 /\ opts' = [opts EXCEPT ![p] = o]
                 /\ sessions' = [sessions EXCEPT ![p] = expired]
                 /\ pc' = [pc EXCEPT ![p] = IF expired = <<>> THEN "dispatch" ELSE "sweep"]
                 /\ exitCode' = [exitCode EXCEPT ![p] = Running]
                 /\ UNCHANGED <<session, activeSession, message, resolved, sdkOptions>>
    /\ UNCHANGED <<store, now, nextId, firstId, returned>>

\* one iteration of the loop of cleanupExpiredSessions that deletes
CleanupDelete(p) ==
    /\ pc[p] = "sweep"
    /\ deleteSession(Head(sessions[p]))
    /\ activeSession' = [activeSession EXCEPT ![p] = ActiveAfterDelete(p, Head(sessions[p]))]
    /\ sessions' = [sessions EXCEPT ![p] = Tail(sessions[p])]
    /\ pc' = [pc EXCEPT ![p] = IF Tail(sessions[p]) = <<>> THEN "dispatch" ELSE "sweep"]
    /\ UNCHANGED <<config, dirs, now, nextId, runs, opts, session,
                   lastFailedQuestion, message, exitCode, resolved, sdkOptions, returned>>

----------------------------------------------------------------------------
(* main: command dispatch *)

\* a main that goes on after handleConfigCommands has returned
ConfigCommand_Returns(p) ==
    /\ pc[p] = "dispatch"
    /\ opts[p].cmd = "configShow"
    /\ opts' = [opts EXCEPT ![p].cmd = "none"]
    /\ UNCHANGED <<store, config, dirs, now, nextId, runs, lastFailedQuestion,
                   firstId, returned, pc, exitCode, session, activeSession,
                   sessions, message, resolved, sdkOptions>>

\* handleConfigCommands: --config-show prints the configuration
ConfigCommand(p) ==
    /\ pc[p] = "dispatch"
    /\ opts[p].cmd = "configShow"
    /\ Exit(p, 0)
    /\ UNCHANGED <<store, config, dirs, now, nextId, runs, lastFailedQuestion,
                   firstId, returned>>

\* handleSessionCommands: --list-sessions and --session-info only print
ShowCommand(p) ==
    /\ pc[p] = "dispatch"
    /\ opts[p].cmd \in {"listSessions", "sessionInfo"}
    /\ Exit(p, 0)
    /\ UNCHANGED <<store, config, dirs, now, nextId, runs, lastFailedQuestion,
                   firstId, returned>>

\* handleSessionCommands: --clear
ClearCommand(p) ==
    /\ pc[p] = "dispatch"
    /\ opts[p].cmd = "clear"
    /\ deleteSession(CommandTarget(p))
    /\ Exit(p, IF Deleted(CommandTarget(p)) THEN 0 ELSE 1)
    /\ UNCHANGED <<config, dirs, now, nextId, runs, lastFailedQuestion,
                   returned>>

\* handleSessionCommands: --clear-all lists the sessions
ClearAllList(p) ==
    /\ pc[p] = "dispatch"
    /\ opts[p].cmd = "clearAll"
    /\ LET list == NamesOf(listAllSessions(store, dirs))
       IN  IF list = <<>>
           THEN Exit(p, 0)
           ELSE /\ sessions' = [sessions EXCEPT ![p] = list]
                /\ pc' = [pc EXCEPT ![p] = "clearAll"]
                /\ UNCHANGED <<exitCode, opts, session, activeSession, message,
                               resolved, sdkOptions>>
    /\ UNCHANGED <<store, config, dirs, now, nextId, runs, lastFailedQuestion,
                   firstId, returned>>

\* handleSessionCommands: one iteration of the loop of --clear-all
ClearAllDelete(p) ==
    /\ pc[p] = "clearAll"
    /\ deleteSession(Head(sessions[p]))
    /\ IF Tail(sessions[p]) = <<>>
       THEN Exit(p, 0)
       ELSE /\ sessions' = [sessions EXCEPT ![p] = Tail(sessions[p])]
            /\ activeSession' =
                 [activeSession EXCEPT ![p] = ActiveAfterDelete(p, Head(sessions[p]))]
            /\ UNCHANGED <<pc, exitCode, opts, session, message, resolved, sdkOptions>>
    /\ UNCHANGED <<config, dirs, now, nextId, runs, lastFailedQuestion,
                   returned>>

\* handleSessionCommands: --export; exportSession throws when the record is missing
ExportCommand(p) ==
    /\ pc[p] = "dispatch"
    /\ opts[p].cmd = "export"
    /\ Exit(p, IF loadSessionFromDisk(store, CommandTarget(p)) = Null THEN 1 ELSE 0)
    /\ UNCHANGED <<store, config, dirs, now, nextId, runs, lastFailedQuestion,
                   firstId, returned>>

\* a --retry that goes on to executeQuery with whatever the slot holds
RetryCommand_Proceeds(p) ==
    /\ pc[p] = "dispatch"
    /\ opts[p].cmd = "retry"
    /\ opts' = [opts EXCEPT ![p].question = lastFailedQuestion[p]]
    /\ pc' = [pc EXCEPT ![p] = "resolve"]
    /\ UNCHANGED <<store, config, dirs, now, nextId, runs, lastFailedQuestion,
                   firstId, returned, exitCode, session, activeSession,
                   sessions, message, resolved, sdkOptions>>

\* main: --retry takes the question from lastFailedQuestion or exits with 1
RetryCommand(p) ==
    /\ pc[p] = "dispatch"
    /\ opts[p].cmd = "retry"
    /\ IF lastFailedQuestion[p] = NullString
       THEN Exit(p, 1)
       ELSE /\ opts' = [opts EXCEPT ![p].question = lastFailedQuestion[p]]
            /\ pc' = [pc EXCEPT ![p] = "resolve"]
            /\ UNCHANGED <<exitCode, session, activeSession, sessions, message,
                           resolved, sdkOptions>>
    /\ UNCHANGED <<store, config, dirs, now, nextId, runs, lastFailedQuestion,
                   firstId, returned>>

\* main: neither a command nor a question: showHelp and exit 1
NoCommand(p) ==
    /\ pc[p] = "dispatch"
    /\ opts[p].cmd = "none"
    /\ Exit(p, 1)
    /\ UNCHANGED <<store, config, dirs, now, nextId, runs, lastFailedQuestion,
                   firstId, returned>>

----------------------------------------------------------------------------
(* executeQuery *)

\* main reaches executeQuery: a question was given, or --retry found one
EntersQuery(p) ==
    \/ pc[p] = "dispatch" /\ opts[p].cmd = "query"
    \/ pc[p] = "resolve"

\* options for a query that resumes whenever the record has a session id
sdkOptionsOf_Always(s, options) == [resume |-> s.sdkSessionId]

\* the options executeQuery builds for the engine: resume is the session id
\* of the record unless --no-history is given or the record has none
sdkOptionsOf(s, options) ==
    [resume |-> IF ~options.noHistory /\ s.sdkSessionId # Undefined
                THEN s.sdkSessionId ELSE Undefined]

\* getActiveSession, first await: loadSessionFromDisk of the target name.
\* A record that loads is returned and becomes the active session and
\* executeQuery goes on to submit the query; a missing one sends the
\* resolution on to createSession.
ResolveLoad(p) ==
    /\ EntersQuery(p)
    /\ ~SkipsLoad(QuerySelection(p))
    /\ LET name == TargetName(QuerySelection(p))
           loaded == loadSessionFromDisk(store, name)
       IN  IF loaded # Null
           THEN /\ session' = [session EXCEPT ![p] = loaded]
                /\ activeSession' = [activeSession EXCEPT ![p] = Ref]
                /\ resolved' = [resolved EXCEPT ![p] = loaded]
                /\ sdkOptions' = [sdkOptions EXCEPT ![p] = sdkOptionsOf(loaded, opts[p])]
                /\ firstId' = [firstId EXCEPT ![name] =
                                  IF firstId[name] = 0 THEN loaded.id ELSE firstId[name]]
                /\ pc' = [pc EXCEPT ![p] = "query"]
           ELSE /\ pc' = [pc EXCEPT ![p] = "create"]
                /\ UNCHANGED <<session, activeSession, resolved, sdkOptions, firstId>>
    /\ UNCHANGED <<store, config, dirs, now, nextId, runs, opts,
                   lastFailedQuestion, sessions, message, exitCode, returned>>

\* createSession as called by getGlobalSession, getShellSession and
\* getNamedSession: a fresh record is written under the name and returned,
\* and executeQuery goes on to submit the query
ResolveCreate(p) ==
    /\ \/ pc[p] = "create"
       \/ EntersQuery(p) /\ SkipsLoad(QuerySelection(p))
    /\ LET sel == QuerySelection(p)
           name == TargetName(sel)
           created == NewSession(nextId, name, Branch(sel), TargetPID(sel), now)
       IN  /\ store' = saveSession(store, created)
           /\ session' = [session EXCEPT ![p] = created]
           /\ activeSession' = [activeSession EXCEPT ![p] = Ref]
           /\ resolved' = [resolved EXCEPT ![p] = created]
           /\ sdkOptions' = [sdkOptions EXCEPT ![p] = sdkOptionsOf(created, opts[p])]
           /\ firstId' = [firstId EXCEPT ![name] =
                             IF SkipsLoad(sel) THEN 0
                             ELSE IF firstId[name] = 0 THEN created.id
                             ELSE firstId[name]]
    /\ nextId' = nextId + 1
    /\ pc' = [pc EXCEPT ![p] = "query"]
    /\ UNCHANGED <<config, dirs, now, runs, opts, lastFailedQuestion, sessions,
                   message, exitCode, returned>>

\* an init handler that keeps the session id the record already has
OnInit_KeepsFirst(s, session_id) ==
    IF s.sdkSessionId = Undefined THEN [s EXCEPT !.sdkSessionId = session_id] ELSE s

\* the system init message: the session id of the engine is captured
OnInit(s, session_id) == [s EXCEPT !.sdkSessionId = session_id]

\* a result handler that assigns the turns instead of adding them
OnResult_Assigns(s, num_turns, usage) ==
    IF usage = Null
    THEN [s EXCEPT !.messageCount = num_turns]
    ELSE [s EXCEPT !.messageCount = num_turns,
                   !.totalTokens = @ + usage.input_tokens + usage.output_tokens,
                   !.totalCost = @ + usage.input_tokens * costPer1kInput
                                   + usage.output_tokens * costPer1kOutput]

\* a result handler that forgets the session id when the result has no usage
OnResult_DropsToken(s, num_turns, usage) ==
    IF usage = Null
    THEN [s EXCEPT !.messageCount = @ + num_turns, !.sdkSessionId = Undefined]
    ELSE [s EXCEPT !.messageCount = @ + num_turns,
                   !.totalTokens = @ + usage.input_tokens + usage.output_tokens,
                   !.totalCost = @ + usage.input_tokens * costPer1kInput
                                   + usage.output_tokens * costPer1kOutput]

\* a result handler that leaves the output tokens out of totalTokens
OnResult_InputOnly(s, num_turns, usage) ==
    IF usage = Null
    THEN [s EXCEPT !.messageCount = @ + num_turns]
    ELSE [s EXCEPT !.messageCount = @ + num_turns,
                   !.totalTokens = @ + usage.input_tokens,
                   !.totalCost = @ + usage.input_tokens * costPer1kInput
                                   + usage.output_tokens * costPer1kOutput]

\* the result message: turns, tokens and estimated cost are added
OnResult(s, num_turns, usage) ==
    IF usage = Null
    THEN [s EXCEPT !.messageCount = @ + num_turns]
    ELSE [s EXCEPT !.messageCount = @ + num_turns,
                   !.totalTokens = @ + usage.input_tokens + usage.output_tokens,
                   !.totalCost = @ + usage.input_tokens * costPer1kInput
                                   + usage.output_tokens * costPer1kOutput]

\* an exchange whose result handler saves the record while the stream is open
EngineMessages_Saves(p) ==
    /\ pc[p] = "query"
    /\ \E result \in Results :
         /\ session' = [session EXCEPT ![p] =
                            OnResult(OnInit(session[p], SessionId[p]),
                                     result.num_turns, result.usage)]
         /\ message' = [message EXCEPT ![p] = result]
    /\ store' = saveSession(store, session'[p])
    /\ pc' = [pc EXCEPT ![p] = "finish"]
    /\ UNCHANGED <<config, dirs, now, nextId, runs, opts, activeSession,
                   lastFailedQuestion, sessions, exitCode, resolved, sdkOptions, firstId,
                   returned>>

\* for await: the engine delivers its init message and then its terminal
\* result message; both handlers touch only the memory of the process
EngineMessages(p) ==
    /\ pc[p] = "query"
    /\ \E result \in Results :
         /\ session' = [session EXCEPT ![p] =
                            OnResult(OnInit(session[p], SessionId[p]),
                                     result.num_turns, result.usage)]
         /\ message' = [message EXCEPT ![p] = result]
    /\ pc' = [pc EXCEPT ![p] = "finish"]
    /\ UNCHANGED <<store, config, dirs, now, nextId, runs, opts, activeSession,
                   lastFailedQuestion, sessions, exitCode, resolved, sdkOptions, firstId,
                   returned>>

\* a catch block that saves the session as the events left it
EngineThrow_Saves(p) ==
    /\ pc[p] \in {"query", "finish"}
    /\ store' = saveSession(store, [session[p] EXCEPT !.lastUsed = now])
    /\ lastFailedQuestion' = [lastFailedQuestion EXCEPT ![p] = opts[p].question]
    /\ Exit(p, 1)
    /\ UNCHANGED <<config, dirs, now, nextId, runs, firstId, returned>>

\* the exchange throws: the catch block remembers the question, nothing is saved
EngineThrow(p) ==
    /\ pc[p] \in {"query", "finish"}
    /\ lastFailedQuestion' = [lastFailedQuestion EXCEPT ![p] = opts[p].question]
    /\ Exit(p, 1)
    /\ UNCHANGED <<store, config, dirs, now, nextId, runs, firstId, returned>>

\* a hadError that the result handler never sets
hadError_Never(p) == FALSE

\* hadError = message.is_error of the result message, false without one
hadError(p) == message[p] # Null /\ message[p].is_error

\* a save that also stamps created with the clock
Touched_Recreated(s, t) == [s EXCEPT !.lastUsed = t, !.created = t]

\* the record executeQuery saves: the session with lastUsed set to the clock
Touched(s, t) == [s EXCEPT !.lastUsed = t]

\* an end of the exchange that saves only over a file that is still there
Finish_Sticky(p) ==
    /\ pc[p] = "finish"
    /\ store' = IF ~opts[p].noHistory /\ store[session[p].name] # NoFile
                THEN saveSession(store, Touched(session[p], now))
                ELSE store
    /\ lastFailedQuestion' =
         [lastFailedQuestion EXCEPT ![p] = IF hadError(p) THEN opts[p].question ELSE @]
    /\ Exit(p, IF hadError(p) THEN 1 ELSE 0)
    /\ UNCHANGED <<config, dirs, now, nextId, runs, firstId, returned>>

\* the stream has ended: unless --no-history, lastUsed is set and the record
\* saved; a failed question is remembered; the result becomes the exit code
Finish(p) ==
    /\ pc[p] = "finish"
    /\ store' = IF ~opts[p].noHistory
                THEN saveSession(store, Touched(session[p], now))
                ELSE store
    /\ lastFailedQuestion' =
         [lastFailedQuestion EXCEPT ![p] = IF hadError(p) THEN opts[p].question ELSE @]
    /\ Exit(p, IF hadError(p) THEN 1 ELSE 0)
    /\ UNCHANGED <<config, dirs, now, nextId, runs, firstId, returned>>

----------------------------------------------------------------------------

Next ==
    \/ Tick
    \/ \E p \in Procs :
        \/ Start(p)
        \/ CleanupDelete(p)
        \/ ConfigCommand(p)
        \/ ShowCommand(p)
        \/ ClearCommand(p)
        \/ ClearAllList(p)
        \/ ClearAllDelete(p)
        \/ ExportCommand(p)
        \/ RetryCommand(p)
        \/ NoCommand(p)
        \/ ResolveLoad(p)
        \/ ResolveCreate(p)
        \/ EngineMessages(p)
        \/ EngineThrow(p)
        \/ Finish(p)

Spec == Init /\ [][Next]_vars

----------------------------------------------------------------------------
(* The SessionManager called directly                                       *)
(*                                                                          *)
(* A host process holds a SessionManager and calls its methods in any       *)
(* order, with any arguments; the two processes share the session files.    *)
(* pc is "api" between calls; a call that awaits more than once takes one   *)
(* step per await.                                                          *)

MaxCalls == 3
MaxClock == 4

\* the SessionSelectionOptions a caller passes to getActiveSession
Selections ==
    {[sessionName |-> NoName, shellPID |-> NoName, type |-> "auto", forceNew |-> FALSE]}
    \cup
    {[sessionName |-> "topic-a", shellPID |-> NoName, type |-> "named", forceNew |-> f] :
        f \in BOOLEAN}
    \cup
    {[sessionName |-> NoName, shellPID |-> ShellPID[q], type |-> "shell",
      forceNew |-> FALSE] : q \in Procs}
    \cup
    {[sessionName |-> n, shellPID |-> ShellPID["B"], type |-> "shell",
      forceNew |-> FALSE] : n \in {"global", "shell-" \o ShellPID["A"]}}

\* the question texts a caller passes to setLastFailedQuestion
FailedQuestions == {"q1", "q2"}

\* the sessions directory exists and config.json has been written
InitAPI ==
    /\ store = [n \in Files |-> NoFile]
    /\ config \in UserConfigs
    /\ dirs = TRUE
    /\ now = 0
    /\ nextId = 1
    /\ runs = 0
    /\ pc = [p \in Procs |-> "api"]
    /\ opts = [p \in Procs |-> Null]
    /\ session = [p \in Procs |-> Null]
    /\ activeSession = [p \in Procs |-> Null]
    /\ lastFailedQuestion = [p \in Procs |-> NullString]
    /\ sessions = [p \in Procs |-> <<>>]
    /\ message = [p \in Procs |-> Null]
    /\ exitCode = [p \in Procs |-> Running]
    /\ resolved = [p \in Procs |-> Null]
    /\ sdkOptions = [p \in Procs |-> Null]
    /\ firstId = [n \in Files |-> 0]
    /\ returned = [p \in Procs |-> Null]

\* the system clock advances
ApiTick ==
    /\ now < MaxClock
    /\ now' = now + 1
    /\ UNCHANGED <<store, config, dirs, nextId, runs, pc, opts, session,
                   activeSession, lastFailedQuestion, sessions, message,
                   exitCode, resolved, sdkOptions, firstId, returned>>

\* a method of the SessionManager of p is called
Called(p) ==
    /\ pc[p] = "api"
    /\ runs < MaxCalls
    /\ runs' = runs + 1

\* getActiveSession up to its first await: with forceNew straight on to
\* createSession, else loadSessionFromDisk of the target name; a record that
\* loads becomes the active session and is returned
ApiGetActiveSession(p, sel) ==
    /\ Called(p)
    /\ opts' = [opts EXCEPT ![p] = sel]
    /\ LET loaded == loadSessionFromDisk(store, TargetName(sel))
       IN  IF ~SkipsLoad(sel) /\ loaded # Null
           THEN /\ session' = [session EXCEPT ![p] = loaded]
                /\ activeSession' = [activeSession EXCEPT ![p] = Ref]
                /\ returned' = [returned EXCEPT ![p] =
                                   [call |-> "getActiveSession", value |-> loaded]]
                /\ UNCHANGED pc
           ELSE /\ pc' = [pc EXCEPT ![p] = "apiCreate"]
                /\ UNCHANGED <<session, activeSession, returned>>
    /\ UNCHANGED <<store, config, dirs, now, nextId, lastFailedQuestion,
                   sessions, message, exitCode, resolved, sdkOptions, firstId>>

\* createSession: the fresh record is written under the target name, becomes
\* the active session and is returned; without the sessions directory
\* writeFile rejects with ENOENT and the rejection reaches the caller of
\* getActiveSession
ApiCreateSession(p) ==
    /\ pc[p] = "apiCreate"
    /\ LET sel == opts[p]
           created == NewSession(nextId, TargetName(sel), Branch(sel),
                                 TargetPID(sel), now)
       IN  IF dirs
           THEN /\ store' = saveSession(store, created)
                /\ session' = [session EXCEPT ![p] = created]
                /\ activeSession' = [activeSession EXCEPT ![p] = Ref]
                /\ returned' = [returned EXCEPT ![p] =
                                   [call |-> "getActiveSession", value |-> created]]
           ELSE /\ returned' = [returned EXCEPT ![p] =
                                   [call |-> "getActiveSession",
                                    value |-> Thrown("ENOENT")]]
                /\ UNCHANGED <<store, session, activeSession>>
    /\ nextId' = nextId + 1
    /\ pc' = [pc EXCEPT ![p] = "api"]
    /\ UNCHANGED <<config, dirs, now, runs, opts, lastFailedQuestion, sessions,
                   message, exitCode, resolved, sdkOptions, firstId>>

\* saveSession of the record the caller holds, after the caller has changed
\* it as an exchange does
ApiSaveSession(p) ==
    /\ Called(p)
    /\ session[p] # Null
    /\ \E result \in Results :
         LET s == Touched(OnResult(OnInit(session[p], SessionId[p]),
                                   result.num_turns, result.usage), now)
         IN  /\ store' = saveSession(store, s)
             /\ session' = [session EXCEPT ![p] = s]
    /\ returned' = [returned EXCEPT ![p] = [call |-> "saveSession", value |-> Null]]
    /\ UNCHANGED <<config, dirs, now, nextId, pc, opts, activeSession,
                   lastFailedQuestion, sessions, message, exitCode, resolved, sdkOptions,
                   firstId>>

\* deleteSession(sessionName)
ApiDeleteSession(p, sessionName) ==
    /\ Called(p)
    /\ deleteSession(sessionName)
    /\ activeSession' = [activeSession EXCEPT ![p] = ActiveAfterDelete(p, sessionName)]
    /\ returned' = [returned EXCEPT ![p] =
                       [call |-> "deleteSession", value |-> Deleted(sessionName)]]
    /\ UNCHANGED <<config, dirs, now, nextId, pc, opts, session,
                   lastFailedQuestion, sessions, message, exitCode, resolved, sdkOptions>>

\* setLastFailedQuestion(question)
ApiSetLastFailedQuestion(p, question) ==
    /\ Called(p)
    /\ lastFailedQuestion' = [lastFailedQuestion EXCEPT ![p] = question]
    /\ returned' = [returned EXCEPT ![p] =
                       [call |-> "setLastFailedQuestion", value |-> Null]]
    /\ UNCHANGED <<store, config, dirs, now, nextId, pc, opts, session,
                   activeSession, sessions, message, exitCode, resolved, sdkOptions, firstId>>

\* a getLastFailedQuestion that empties the slot it reads
ApiGetLastFailedQuestion_Consumes(p) ==
    /\ Called(p)
    /\ returned' = [returned EXCEPT ![p] =
                       [call |-> "getLastFailedQuestion",
                        value |-> lastFailedQuestion[p]]]
    /\ lastFailedQuestion' = [lastFailedQuestion EXCEPT ![p] = NullString]
    /\ UNCHANGED <<store, config, dirs, now, nextId, pc, opts, session,
                   activeSession, sessions, message, exitCode, resolved, sdkOptions, firstId>>

\* getLastFailedQuestion()
ApiGetLastFailedQuestion(p) ==
    /\ Called(p)
    /\ returned' = [returned EXCEPT ![p] =
                       [call |-> "getLastFailedQuestion",
                        value |-> lastFailedQuestion[p]]]
    /\ UNCHANGED <<store, config, dirs, now, nextId, pc, opts, session,
                   activeSession, lastFailedQuestion, sessions, message,
                   exitCode, resolved, sdkOptions, firstId>>

\* cleanupExpiredSessions up to its loop: the configuration is loaded, the
\* sessions are listed, the clock is read and the records to delete decided
ApiCleanupList(p) ==
    /\ Called(p)
    /\ LET cfg == LoadedConfig
           expired == IF cfg.autoCleanup
                      THEN NamesOf(Expired(listAllSessions(store, dirs), cfg, now))
                      ELSE <<>>
       IN  /\ sessions' = [sessions EXCEPT ![p] = expired]
           /\ pc' = [pc EXCEPT ![p] = IF expired = <<>> THEN "api" ELSE "apiSweep"]
    /\ returned' = [returned EXCEPT ![p] =
                       [call |-> "cleanupExpiredSessions", value |-> 0]]
    /\ UNCHANGED <<store, config, dirs, now, nextId, opts, session,
                   activeSession, lastFailedQuestion, message, exitCode,
                   resolved, sdkOptions, firstId>>

\* one iteration of the loop of cleanupExpiredSessions that deletes; the
\* call returns the number of records it has deleted
ApiCleanupDelete(p) ==
    /\ pc[p] = "apiSweep"
    /\ deleteSession(Head(sessions[p]))
    /\ activeSession' = [activeSession EXCEPT ![p] = ActiveAfterDelete(p, Head(sessions[p]))]
    /\ sessions' = [sessions EXCEPT ![p] = Tail(sessions[p])]
    /\ returned' = [returned EXCEPT ![p].value =
                       IF Deleted(Head(sessions[p])) THEN @ + 1 ELSE @]
    /\ pc' = [pc EXCEPT ![p] = IF Tail(sessions[p]) = <<>> THEN "api" ELSE "apiSweep"]
    /\ UNCHANGED <<config, dirs, now, nextId, runs, opts, session,
                   lastFailedQuestion, message, exitCode, resolved, sdkOptions>>

NextAPI ==
    \/ ApiTick
    \/ \E p \in Procs :
        \/ \E sel \in Selections : ApiGetActiveSession(p, sel)
        \/ ApiCreateSession(p)
        \/ ApiSaveSession(p)
        \/ \E n \in Files : ApiDeleteSession(p, n)
        \/ \E q \in FailedQuestions : ApiSetLastFailedQuestion(p, q)
        \/ ApiGetLastFailedQuestion(p)
        \/ ApiCleanupList(p)
        \/ ApiCleanupDelete(p)

SpecAPI == InitAPI /\ [][NextAPI]_vars

----------------------------------------------------------------------------
(* The command line run from a shell that has a per-shell record            *)

\* the store holds the record getShellSession creates for the shell of
\* process "A" (the state after ApiCreateSession for that selection), the
\* shell of "B" has none; config.json has been written
InitShell ==
    /\ store = [n \in Files |->
                  IF n = "shell-" \o ShellPID["A"]
                  THEN Stringify(NewSession(1, n, "shell", parseIntPID(ShellPID["A"]), 0))
                  ELSE NoFile]
    /\ config \in UserConfigs
    /\ dirs = TRUE
    /\ now = 0
    /\ nextId = 2
    /\ runs = 0
    /\ pc = [p \in Procs |-> "idle"]
    /\ opts = [p \in Procs |-> Null]
    /\ session = [p \in Procs |-> Null]
    /\ activeSession = [p \in Procs |-> Null]
    /\ lastFailedQuestion = [p \in Procs |-> NullString]
    /\ sessions = [p \in Procs |-> <<>>]
    /\ message = [p \in Procs |-> Null]
    /\ exitCode = [p \in Procs |-> Running]
    /\ resolved = [p \in Procs |-> Null]
    /\ sdkOptions = [p \in Procs |-> Null]
    /\ firstId = [n \in Files |-> 0]
    /\ returned = [p \in Procs |-> Null]

SpecShell == InitShell /\ [][Next]_vars

-----------------------------------------------------------------------------
(* The SessionManager on a machine where no session has been written yet:
   the sessions directory may not exist, and config.json is missing or was
   put in place by hand, with auto-cleanup switched on or off.
   ensureDirectories, which only loadConfig and saveConfig call, checks and
   creates in separate steps. *)

\* config.json with sessions.autoCleanup as the user has set it
SwitchedConfigs ==
    {[c EXCEPT !.autoCleanup = b] : c \in UserConfigs, b \in BOOLEAN}

InitFresh ==
    /\ store = [n \in Files |-> NoFile]
    /\ config \in SwitchedConfigs \cup {NoFile}
    /\ dirs \in BOOLEAN
    /\ now = 0
    /\ nextId = 1
    /\ runs = 0
    /\ pc = [p \in Procs |-> "api"]
    /\ opts = [p \in Procs |-> Null]
    /\ session = [p \in Procs |-> Null]
    /\ activeSession = [p \in Procs |-> Null]
    /\ lastFailedQuestion = [p \in Procs |-> NullString]
    /\ sessions = [p \in Procs |-> <<>>]
    /\ message = [p \in Procs |-> Null]
    /\ exitCode = [p \in Procs |-> Running]
    /\ resolved = [p \in Procs |-> Null]
    /\ sdkOptions = [p \in Procs |-> Null]
    /\ firstId = [n \in Files |-> 0]
    /\ returned = [p \in Procs |-> Null]

\* cleanupExpiredSessions, loadConfig, ensureDirectories: fs.access of the
\* directories; mkdir follows only when access rejects
ApiEnsureAccess(p) ==
    /\ Called(p)
    /\ pc' = [pc EXCEPT ![p] = IF dirs THEN "apiLoad" ELSE "apiMkdir"]
    /\ returned' = [returned EXCEPT ![p] =
                       [call |-> "cleanupExpiredSessions", value |-> 0]]
    /\ UNCHANGED <<store, config, dirs, now, nextId, opts, session,
                   activeSession, lastFailedQuestion, sessions, message,
                   exitCode, resolved, sdkOptions, firstId>>

\* ensureDirectories: fs.mkdir(dir, {recursive: true}) creates what is
\* missing and resolves also when the directory exists by now
ApiEnsureMkdir(p) ==
    /\ pc[p] = "apiMkdir"
    /\ dirs' = TRUE
    /\ pc' = [pc EXCEPT ![p] = "apiLoad"]
    /\ UNCHANGED <<store, config, now, nextId, runs, opts, session,
                   activeSession, lastFailedQuestion, sessions, message,
                   exitCode, resolved, sdkOptions, firstId, returned>>

\* a cleanupExpiredSessions that does not look at sessions.autoCleanup
ApiLoadAndList_Always(p) ==
    /\ pc[p] = "apiLoad"
    /\ LET cfg == LoadedConfig
           expired == NamesOf(Expired(listAllSessions(store, dirs), cfg, now))
       IN  /\ config' = cfg
           /\ sessions' = [sessions EXCEPT ![p] = expired]
           /\ pc' = [pc EXCEPT ![p] = IF expired = <<>> THEN "api" ELSE "apiSweep"]
    /\ UNCHANGED <<store, dirs, now, nextId, runs, opts, session,
                   activeSession, lastFailedQuestion, message, exitCode,
                   resolved, sdkOptions, firstId, returned>>

\* loadConfig reads config.json or writes the defaults; then
\* cleanupExpiredSessions lists the sessions, reads the clock and decides
\* the records to delete
ApiLoadAndList(p) ==
    /\ pc[p] = "apiLoad"
    /\ LET cfg == LoadedConfig
           expired == IF cfg.autoCleanup
                      THEN NamesOf(Expired(listAllSessions(store, dirs), cfg, now))
                      ELSE <<>>
       IN  /\ config' = cfg
           /\ sessions' = [sessions EXCEPT ![p] = expired]
           /\ pc' = [pc EXCEPT ![p] = IF expired = <<>> THEN "api" ELSE "apiSweep"]
    /\ UNCHANGED <<store, dirs, now, nextId, runs, opts, session,
                   activeSession, lastFailedQuestion, message, exitCode,
                   resolved, sdkOptions, firstId, returned>>

NextFresh ==
    \/ ApiTick
    \/ \E p \in Procs :
        \/ \E sel \in Selections : ApiGetActiveSession(p, sel)
        \/ ApiCreateSession(p)
        \/ ApiEnsureAccess(p)
        \/ ApiEnsureMkdir(p)
        \/ ApiLoadAndList(p)
        \/ ApiCleanupDelete(p)

SpecFresh == InitFresh /\ [][NextFresh]_vars

-----------------------------------------------------------------------------
(* The SessionManager over a sessions directory as it is found: any file may
   be missing, unparseable or a record, and a session may have any name a
   file name allows *)

\* the session names of the files the directory may hold
DiskNames == Files \cup {"v1.jsonl"}

\* the kind of the record a name resolves to when nothing else wrote there
DiskType(n) ==
    IF n = "global" THEN "global"
    ELSE IF n \in {"shell-" \o ShellPID[q] : q \in Procs} THEN "shell"
    ELSE "named"

\* the process id createSession stores in a record of that name
DiskPID(n) ==
    IF \E q \in Procs : n = "shell-" \o ShellPID[q]
    THEN parseIntPID(ShellPID[CHOOSE q \in Procs : n = "shell-" \o ShellPID[q]])
    ELSE UndefinedNumber

\* the ids of the records on disk
DiskId(n) ==
    CASE n = "global" -> 1 [] n = "shell-1" -> 2 [] n = "shell-2" -> 3
      [] n = "topic-a" -> 4 [] OTHER -> 5

\* the times at which the records on disk were last used
DiskTimes == {0, 1}

\* what a session file may hold
DiskFiles(n) ==
    {NoFile, Corrupt}
    \cup {Stringify(NewSession(DiskId(n), n, DiskType(n), DiskPID(n), t)) : t \in DiskTimes}

\* without the sessions directory there is no session file
InitDisk ==
    /\ store \in [DiskNames -> UNION {DiskFiles(n) : n \in DiskNames}]
    /\ \A n \in DiskNames : store[n] \in DiskFiles(n)
    /\ dirs \in BOOLEAN
    /\ ~dirs => \A n \in DiskNames : store[n] = NoFile
    /\ config \in UserConfigs
    /\ now = 1
    /\ nextId = 6
    /\ runs = 0
    /\ pc = [p \in Procs |-> "api"]
    /\ opts = [p \in Procs |-> Null]
    /\ session = [p \in Procs |-> Null]
    /\ activeSession = [p \in Procs |-> Null]
    /\ lastFailedQuestion = [p \in Procs |-> NullString]
    /\ sessions = [p \in Procs |-> <<>>]
    /\ message = [p \in Procs |-> Null]
    /\ exitCode = [p \in Procs |-> Running]
    /\ resolved = [p \in Procs |-> Null]
    /\ sdkOptions = [p \in Procs |-> Null]
    /\ firstId = [n \in DiskNames |-> 0]
    /\ returned = [p \in Procs |-> Null]

\* the calls made on a directory as found
MaxDiskCalls == 2

\* a method of the SessionManager of p is called on such a directory
DiskCalled(p) ==
    /\ pc[p] = "api"
    /\ runs < MaxDiskCalls
    /\ runs' = runs + 1

\* the lines exportSession writes, without the time of the export
Report(s) ==
    [name |-> s.name, type |-> s.type, messageCount |-> s.messageCount,
     totalTokens |-> s.totalTokens]

\* an exportSession that writes the report before it looks at the record
exportSession_WritesFirst(st, sessionName) ==
    IF loadSessionFromDisk(st, sessionName) = Null
    THEN [call |-> "exportSession", value |-> Thrown("not found"),
          written |-> [name |-> sessionName]]
    ELSE [call |-> "exportSession", value |-> Null,
          written |-> Report(loadSessionFromDisk(st, sessionName))]

\* exportSession(sessionName, outputPath): what the caller gets and what is
\* written to outputPath, a path of the caller outside the sessions directory
exportSession(st, sessionName) ==
    IF loadSessionFromDisk(st, sessionName) = Null
    THEN [call |-> "exportSession", value |-> Thrown("not found"), written |-> NoFile]
    ELSE [call |-> "exportSession", value |-> Null,
          written |-> Report(loadSessionFromDisk(st, sessionName))]

\* listAllSessions()
ApiListAllSessions(p) ==
    /\ DiskCalled(p)
    /\ returned' = [returned EXCEPT ![p] =
                       [call |-> "listAllSessions", value |-> listAllSessions(store, dirs)]]
    /\ UNCHANGED <<store, config, dirs, now, nextId, pc, opts, session,
                   activeSession, lastFailedQuestion, sessions, message,
                   exitCode, resolved, sdkOptions, firstId>>

\* exportSession(sessionName, outputPath)
ApiExportSession(p, sessionName) ==
    /\ DiskCalled(p)
    /\ returned' = [returned EXCEPT ![p] = exportSession(store, sessionName)]
    /\ UNCHANGED <<store, config, dirs, now, nextId, pc, opts, session,
                   activeSession, lastFailedQuestion, sessions, message,
                   exitCode, resolved, sdkOptions, firstId>>

\* deleteSession(sessionName) when unlink rejects although the file is there
\* (EPERM, EACCES, EBUSY): the catch returns false
ApiDeleteSessionFails(p, sessionName) ==
    /\ DiskCalled(p)
    /\ store[sessionName] # NoFile
    /\ returned' = [returned EXCEPT ![p] = [call |-> "deleteSession", value |-> FALSE]]
    /\ UNCHANGED <<store, config, dirs, now, nextId, pc, opts, session,
                   activeSession, lastFailedQuestion, sessions, message,
                   exitCode, resolved, sdkOptions, firstId>>

\* saveSession of a record as loaded when writeFile rejects (EACCES, ENOSPC):
\* the rejection reaches the caller
ApiSaveSessionFails(p, sessionName) ==
    /\ DiskCalled(p)
    /\ loadSessionFromDisk(store, sessionName) # Null
    /\ returned' = [returned EXCEPT ![p] =
                       [call |-> "saveSession", value |-> Thrown("writeFile")]]
    /\ UNCHANGED <<store, config, dirs, now, nextId, pc, opts, session,
                   activeSession, lastFailedQuestion, sessions, message,
                   exitCode, resolved, sdkOptions, firstId>>

\* --clear-all of handleSessionCommands: the sessions are listed and the
\* count of cleared sessions starts at 0
DiskClearAllList(p) ==
    /\ DiskCalled(p)
    /\ LET list == NamesOf(listAllSessions(store, dirs))
       IN  /\ sessions' = [sessions EXCEPT ![p] = list]
           /\ pc' = [pc EXCEPT ![p] = IF list = <<>> THEN "api" ELSE "apiClear"]
    /\ returned' = [returned EXCEPT ![p] = [call |-> "clearAll", value |-> 0]]
    /\ UNCHANGED <<store, config, dirs, now, nextId, opts, session,
                   activeSession, lastFailedQuestion, message, exitCode,
                   resolved, sdkOptions, firstId>>

\* one iteration of the loop of --clear-all; the count printed at the end is
\* the number of deleteSession calls that returned true
DiskClearAllDelete(p) ==
    /\ pc[p] = "apiClear"
    /\ deleteSession(Head(sessions[p]))
    /\ activeSession' = [activeSession EXCEPT ![p] = ActiveAfterDelete(p, Head(sessions[p]))]
    /\ sessions' = [sessions EXCEPT ![p] = Tail(sessions[p])]
    /\ returned' = [returned EXCEPT ![p].value =
                       IF Deleted(Head(sessions[p])) THEN @ + 1 ELSE @]
    /\ pc' = [pc EXCEPT ![p] = IF Tail(sessions[p]) = <<>> THEN "api" ELSE "apiClear"]
    /\ UNCHANGED <<config, dirs, now, nextId, runs, opts, session,
                   lastFailedQuestion, message, exitCode, resolved, sdkOptions>>

NextDisk ==
    \E p \in Procs :
        \/ ApiListAllSessions(p)
        \/ DiskClearAllList(p)
        \/ DiskClearAllDelete(p)
        \/ \E n \in DiskNames :
             \/ ApiExportSession(p, n)
             \/ ApiDeleteSessionFails(p, n)
             \/ ApiSaveSessionFails(p, n)

SpecDisk == InitDisk /\ [][NextDisk]_vars

----------------------------------------------------------------------------
(* Steps as seen from outside *)

\* the persisted record under a name (only where a file exists)
Persisted(n) == ParseSession(store[n])
PersistedNext(n) == ParseSession(store'[n])

HasToken(f) == f # NoFile /\ f.sdkSessionId # Absent

\* getActiveSession returns in this step
ResolvedNow(p) == pc[p] \in {"dispatch", "resolve", "create"} /\ pc'[p] = "query"

\* the first await of getActiveSession completes in this step
LoadedNow(p) == pc[p] = "dispatch" /\ opts[p].cmd = "query" /\ pc'[p] # "dispatch"

\* the request carries neither --session nor --new-session
NoHints(p) == opts[p].session = NoName /\ opts[p].newSession = NoName

\* executeQuery holds a resolved session
Holding(p) == pc[p] \in {"query", "finish"}

----------------------------------------------------------------------------
(* C1 *)

CountersNotBelow(new, old) ==
    /\ new.messageCount >= old.messageCount
    /\ new.totalTokens >= old.totalTokens
    /\ new.totalCost >= old.totalCost

SameCounters(new, old) ==
    /\ new.messageCount = old.messageCount
    /\ new.totalTokens = old.totalTokens
    /\ new.totalCost = old.totalCost

\* C1 as stated: while the record under a name keeps its id, its persisted
\* counters never decrease from one store state to the next, whatever the
\* interleaving of the processes
C1_CountersNeverDecrease ==
    [][\A n \in Names :
          (store[n] # NoFile /\ store'[n] # NoFile /\ store'[n].id = store[n].id)
          => CountersNotBelow(PersistedNext(n), Persisted(n))]_vars

\* C1 amended: while the record under a name keeps its id, its persisted
\* counters change only in the save that ends a non-ephemeral exchange on
\* that record, and that save does not decrease them when the stored record
\* is still the one the saving process resolved
C1_CountersChangeOnlyBySave ==
    [][\A n \in Names :
          (store[n] # NoFile /\ store'[n] # NoFile /\ store'[n].id = store[n].id)
          => \/ SameCounters(PersistedNext(n), Persisted(n))
             \/ \E p \in Procs :
                  /\ pc[p] = "finish" /\ pc'[p] = "done"
                  /\ ~opts[p].noHistory
                  /\ message[p] # Null
                  /\ session[p].name = n /\ session[p].id = store[n].id
                  /\ SameCounters(PersistedNext(n), session[p])
                  /\ (resolved[p] = Persisted(n)
                        => CountersNotBelow(PersistedNext(n), Persisted(n)))]_vars

\* a second exchange has been saved on top of the counters of a first one
C1_Witness ==
    \E n \in Names : store[n] # NoFile /\ store[n].messageCount >= 3

----------------------------------------------------------------------------
(* C2 *)

\* C2 as stated: no step of the expiry sweep removes the record stored under
\* the name "global"
C2_SweepSparesGlobal ==
    [][\A p \in Procs :
          (pc[p] = "sweep" /\ sessions'[p] # sessions[p] /\ store["global"] # NoFile)
          => store'["global"] # NoFile]_vars

----------------------------------------------------------------------------
(* C3 *)

----------------------------------------------------------------------------
(* C4 *)

\* C4 as stated: once the persisted record under a name carries a resume
\* token, the record persisted under that name in the next state carries one
\* too, unless the record was deleted
C4_TokenNeverCleared ==
    [][\A n \in Names :
          (HasToken(store[n]) /\ store'[n] # NoFile) => HasToken(store'[n])]_vars

\* C4 amended: once the persisted record under a name carries a resume
\* token, it carries one for as long as the record under that name keeps its
\* id; the token goes only with a deletion or when createSession writes a
\* fresh record over it
C4_TokenKeptWhileSameId ==
    [][\A n \in Names :
          (HasToken(store[n]) /\ store'[n] # NoFile /\ store'[n].id = store[n].id)
          => HasToken(store'[n])]_vars

\* a record that carried a token was saved again and still carries one
C4_Witness ==
    \E n \in Names : HasToken(store[n]) /\ store[n].messageCount >= 3

----------------------------------------------------------------------------
(* C5 *)

\* C5 as stated: after the messages of an ephemeral exchange the record held
\* by the process is as it was resolved
C5_EphemeralLeavesRecord ==
    \A p \in Procs :
        (pc[p] = "finish" /\ opts[p].noHistory)
        => /\ session[p].lastUsed = resolved[p].lastUsed
           /\ SameCounters(session[p], resolved[p])
           /\ session[p].sdkSessionId = resolved[p].sdkSessionId

----------------------------------------------------------------------------
(* C6 *)

\* input_tokens + output_tokens of a result message, 0 without usage
ReportedTokens(m) ==
    IF m.usage = Null THEN 0 ELSE m.usage.input_tokens + m.usage.output_tokens

\* Finish saves in this step
SavedNow(p) == pc[p] = "finish" /\ Finish(p) /\ ~opts[p].noHistory

\* C6: the save that ends a non-ephemeral exchange persists the resolved
\* record with messageCount raised by the reported turns and totalTokens by
\* the reported input and output tokens, totalCost not lowered and lastUsed
\* not earlier; and when the first run ever is a query without hints whose
\* result reports 1 turn and 50 tokens, listAllSessions then returns exactly
\* one record, named "global", with messageCount 1 and totalTokens 50
C6_SaveAddsReportedUsage ==
    [][\A p \in Procs :
          SavedNow(p)
          => LET n == session[p].name
                 saved == PersistedNext(n)
                 list == listAllSessions(store', dirs')
             IN  /\ store'[n] # NoFile
                 /\ saved.id = resolved[p].id
                 /\ saved.messageCount = resolved[p].messageCount + message[p].num_turns
                 /\ saved.totalTokens = resolved[p].totalTokens + ReportedTokens(message[p])
                 /\ saved.totalCost >= resolved[p].totalCost
                 /\ saved.lastUsed >= resolved[p].lastUsed
                 /\ (runs = 1 /\ NoHints(p) /\ message[p].num_turns = 1
                        /\ ReportedTokens(message[p]) = 50)
                      => /\ Len(list) = 1
                         /\ list[1].name = "global"
                         /\ list[1].messageCount = 1
                         /\ list[1].totalTokens = 50]_vars

\* the first run was a query without hints that reported 1 turn and 50
\* tokens and has saved its record
C6_Witness ==
    /\ runs = 1
    /\ pc["A"] = "done" /\ exitCode["A"] = 0
    /\ store["global"] # NoFile
    /\ store["global"].type = "global"
    /\ store["global"].messageCount = 1
    /\ store["global"].totalTokens = 50
    /\ store["topic-a"] = NoFile

----------------------------------------------------------------------------
(* C7 *)

\* C7: a resolution with forceNew of a name whose record exists returns a
\* record with another id, zero counters and no resume token, and the store
\* then holds that record under the name
C7_ForceNewReplaces ==
    [][\A p \in Procs :
          LET sel == QuerySelection(p)
              n == TargetName(sel)
          IN  (ResolvedNow(p) /\ sel.sessionName # NoName /\ sel.forceNew
                 /\ store[n] # NoFile)
              => /\ session'[p].id # Persisted(n).id
                 /\ session'[p].name = n
                 /\ session'[p].messageCount = 0
                 /\ session'[p].totalTokens = 0
                 /\ session'[p].totalCost = 0
                 /\ session'[p].sdkSessionId = Undefined
                 /\ store'[n] # NoFile
                 /\ PersistedNext(n) = session'[p]]_vars

\* a forced resolution has replaced the record another process still holds
C7_Witness ==
    \E p, q \in Procs :
        /\ pc[p] = "query" /\ opts[p].newSession # NoName
        /\ Holding(q) /\ q # p
        /\ resolved[q].name = session[p].name
        /\ resolved[q].id < session[p].id
        /\ store[session[p].name] = Stringify(session[p])

----------------------------------------------------------------------------
(* C8 *)

----------------------------------------------------------------------------
(* C9 *)

\* C9 as stated: when an explicit name has been resolved and its record was
\* since neither deleted, swept nor reset by forceNew, a resolution of that
\* name without forceNew returns the same id and leaves the store unchanged
C9_SecondResolutionSameId ==
    [][\A p \in Procs :
          LET sel == QuerySelection(p)
              n == TargetName(sel)
          IN  (LoadedNow(p) /\ sel.sessionName # NoName /\ ~sel.forceNew
                 /\ firstId[n] # 0)
              => /\ pc'[p] = "query"
                 /\ session'[p].id = firstId[n]
                 /\ store' = store]_vars

\* C9 amended: the same, provided the store still holds the record the
\* first resolution returned (no other process has created or saved a
\* record with another id under the name in between)
C9_SecondResolutionSameRecord ==
    [][\A p \in Procs :
          LET sel == QuerySelection(p)
              n == TargetName(sel)
          IN  (LoadedNow(p) /\ sel.sessionName # NoName /\ ~sel.forceNew
                 /\ firstId[n] # 0
                 /\ store[n] # NoFile /\ store[n].id = firstId[n])
              => /\ pc'[p] = "query"
                 /\ session'[p].id = firstId[n]
                 /\ session'[p] = Persisted(n)
                 /\ store' = store]_vars

\* a later run has resolved by name the record an earlier run created and used
C9_Witness ==
    \E p \in Procs :
        /\ pc[p] = "query" /\ opts[p].session = "topic-a"
        /\ session[p].id = firstId["topic-a"]
        /\ session[p].messageCount > 0
        /\ store["topic-a"] = Stringify(session[p])

----------------------------------------------------------------------------
(* C10 *)

\* C10 as stated: when a process holds the record a resolution without
\* hints returned and "global" was not deleted since, the next resolution
\* without hints returns a record named "global" of kind Global, as the
\* first one did
C10_DefaultResolvesGlobalKind ==
    [][\A p, q \in Procs :
          (/\ p # q
           /\ Holding(q) /\ NoHints(q) /\ resolved[q].id = firstId["global"]
           /\ LoadedNow(p) /\ NoHints(p) /\ pc'[p] = "query")
          => /\ session'[p].name = "global"
             /\ session'[p].type = "global"
             /\ resolved[q].name = "global"
             /\ resolved[q].type = "global"]_vars

----------------------------------------------------------------------------
(* C11 *)

\* getActiveSession returns to its caller in this step
ApiResolvedNow(p) ==
    /\ pc'[p] = "api"
    /\ \/ ApiCreateSession(p)
       \/ \E sel \in Selections : ApiGetActiveSession(p, sel)

\* C11: a shell-scoped resolution for process id a returns the record named
\* shell-a, which the store then holds; for every other process id b the
\* name shell-b is another name, the file shell-b is left as it was and the
\* returned record is not the one stored under shell-b
C11_ShellRecordsApart ==
    [][\A p \in Procs :
          (ApiResolvedNow(p) /\ Branch(opts'[p]) = "shell")
          => LET a == opts'[p].shellPID
                 r == returned'[p].value
             IN  /\ r.name = "shell-" \o a
                 /\ store'[r.name] # NoFile
                 /\ \A q \in Procs :
                      LET other == "shell-" \o ShellPID[q]
                      IN  ShellPID[q] # a
                          => /\ other # r.name
                             /\ store'[other] = store[other]
                             /\ store[other] # NoFile => r # Persisted(other)]_vars

\* the shell sessions of both process ids exist side by side
C11_Witness ==
    /\ store["shell-1"] # NoFile /\ store["shell-2"] # NoFile
    /\ store["shell-1"].type = "shell" /\ store["shell-2"].type = "shell"
    /\ store["shell-1"].powerShellPID = parseIntPID("1")
    /\ store["shell-2"].powerShellPID = parseIntPID("2")
    /\ store["shell-1"].id # store["shell-2"].id

----------------------------------------------------------------------------
(* C12 *)

\* C12: deleteSession(n) returns false and leaves the store as it was when
\* no file n exists; when one exists it returns true, removes that file
\* and no other, and a load of n then finds nothing
C12_DeleteRemovesOnlyNamed ==
    [][\A p \in Procs, n \in Files :
          ApiDeleteSession(p, n)
          => IF store[n] = NoFile
             THEN /\ returned'[p].value = FALSE
                  /\ store' = store
             ELSE /\ returned'[p].value = TRUE
                  /\ store'[n] = NoFile
                  /\ loadSessionFromDisk(store', n) = Null
                  /\ \A m \in Files \ {n} : store'[m] = store[m]]_vars

\* a deleteSession has returned true while another record is still stored
C12_Witness ==
    \E p \in Procs :
        /\ returned[p] # Null
        /\ returned[p].call = "deleteSession"
        /\ returned[p].value = TRUE
        /\ \E n, m \in Files : store[n] = NoFile /\ store[m] # NoFile

----------------------------------------------------------------------------
(* C13 *)

----------------------------------------------------------------------------
(* C14 *)

\* the integer day threshold configured for a kind
Threshold(type) ==
    IF type = "shell" THEN parseInt(LoadedConfig.shellSessionExpiry)
    ELSE parseInt(LoadedConfig.namedSessionExpiry)

\* the sweep has decided to delete the record named n
Listed(list, n) == \E i \in DOMAIN list : list[i] = n

----------------------------------------------------------------------------
(* C15 *)

\* C15: the slot of a SessionManager is empty at first; getLastFailedQuestion
\* returns what the slot holds and leaves it; setLastFailedQuestion(X) makes
\* it hold X; and nothing but a setLastFailedQuestion changes it
C15_SlotKeepsLastSet ==
    /\ \A p \in Procs : lastFailedQuestion[p] = NullString
    /\ [][\A p \in Procs :
             /\ ApiGetLastFailedQuestion(p)
                => /\ returned'[p].value = lastFailedQuestion[p]
                   /\ lastFailedQuestion'[p] = lastFailedQuestion[p]
             /\ \A q \in FailedQuestions :
                  ApiSetLastFailedQuestion(p, q) => lastFailedQuestion'[p] = q
             /\ lastFailedQuestion'[p] # lastFailedQuestion[p]
                => \E q \in FailedQuestions : ApiSetLastFailedQuestion(p, q)]_vars

\* one SessionManager has taken all three calls made so far; the last, a
\* read, returned the text "q2" that an earlier call had set, and the slot
\* still holds it
C15_Witness ==
    \E p \in Procs :
        /\ runs >= 3
        /\ returned[p] # Null
        /\ returned[p].call = "getLastFailedQuestion"
        /\ returned[p].value = "q2"
        /\ lastFailedQuestion[p] = "q2"
        /\ \A q \in Procs \ {p} : returned[q] = Null

----------------------------------------------------------------------------
(* C16 *)

\* C16: every file of the store holds the record of its own name; and a
\* first-use creation of a Named session, also when another process has
\* created the same name since this one looked, completes, returns a fresh
\* record of kind Named with zero counters and no resume token, and leaves
\* exactly that record under the name, the other files as they were
C16_OneRecordPerName ==
    /\ [](\A n \in Files : store[n] # NoFile => store[n].name = n)
    /\ [][\A p \in Procs :
             (pc[p] = "create" /\ ResolveCreate(p) /\ opts[p].session # NoName)
             => LET n == opts[p].session
                IN  /\ pc'[p] = "query"
                    /\ session'[p].name = n
                    /\ session'[p].type = "named"
                    /\ SameCounters(session'[p], NewSession(0, n, "named", UndefinedNumber, 0))
                    /\ session'[p].sdkSessionId = Undefined
                    /\ \A m \in Files : store[m] # NoFile => session'[p].id # store[m].id
                    /\ store'[n] = Stringify(session'[p])
                    /\ \A m \in Files \ {n} : store'[m] = store[m]]_vars

\* the only two runs so far both resolved "topic-a" for the first time; each
\* holds its own fresh record and the store holds the one written last
C16_Witness ==
    \E p, q \in Procs :
        /\ p # q /\ runs = 2 /\ nextId = 3
        /\ pc[p] = "query" /\ pc[q] = "query"
        /\ opts[p].session = "topic-a" /\ opts[q].session = "topic-a"
        /\ resolved[p].id = 2 /\ resolved[q].id = 1
        /\ resolved[p].type = "named" /\ resolved[q].type = "named"
        /\ resolved[p].messageCount = 0 /\ resolved[q].messageCount = 0
        /\ store["topic-a"] = Stringify(resolved[p])
        /\ store["global"] = NoFile

----------------------------------------------------------------------------
(* C17 *)

\* C17 as stated: a query without --session and --new-session resolves the
\* per-shell record of the calling shell when the store holds one, and the
\* record named "global" only when it holds none
C17_DefaultPrefersShellRecord ==
    [][\A p \in Procs :
          (ResolvedNow(p) /\ NoHints(p))
          => session'[p].name =
                IF store["shell-" \o ShellPID[p]] # NoFile
                THEN "shell-" \o ShellPID[p]
                ELSE "global"]_vars

----------------------------------------------------------------------------
(* C18 *)

\* C18 as stated: a run with --new-session <name> and no question ends with
\* a Named record under that name in the store and exit code 0
C18_NewSessionAloneCreates ==
    [][\A p \in Procs :
          (/\ pc[p] = "dispatch" /\ pc'[p] = "done"
           /\ opts[p].cmd = "none" /\ opts[p].newSession # NoName)
          => /\ store'[opts[p].newSession] # NoFile
             /\ store'[opts[p].newSession].type = "named"
             /\ exitCode'[p] = 0]_vars

----------------------------------------------------------------------------
(* C19 *)

\* C19 as stated: when the run that follows a failed question is --retry,
\* it finds the question the failed run remembered (and so resubmits it)
C19_RetryFindsFailedQuestion ==
    [][\A p \in Procs :
          (/\ pc[p] = "done" /\ exitCode[p] = 1
           /\ lastFailedQuestion[p] # NullString
           /\ pc'[p] \in {"dispatch", "sweep"}
           /\ opts'[p].cmd = "retry")
          => lastFailedQuestion'[p] = lastFailedQuestion[p]]_vars

----------------------------------------------------------------------------
(* C20 *)

\* the command of p fails in this step
Fails(p) ==
    \/ pc[p] = "finish" /\ hadError(p)
    \/ pc[p] \in {"query", "finish"} /\ EngineThrow(p)
    \/ pc[p] = "dispatch" /\ opts[p].cmd = "retry"
         /\ lastFailedQuestion[p] = NullString
    \/ pc[p] = "dispatch" /\ opts[p].cmd \in {"clear", "export", "sessionInfo"}
         /\ opts[p].session # NoName /\ store[opts[p].session] = NoFile

\* C20 as stated: a run whose command fails (engine error or throw, --retry
\* with nothing remembered, --clear, --export or --session-info of a session
\* that does not exist) ends with a non-zero exit code
C20_FailureExitsNonZero ==
    [][\A p \in Procs :
          (pc[p] # "done" /\ pc'[p] = "done" /\ Fails(p))
          => exitCode'[p] # 0]_vars

-----------------------------------------------------------------------------
(* Export *)

-----------------------------------------------------------------------------
(* Resolution by explicit name and by shell *)

\* C22 as stated: a resolution whose request carries a session name returns
\* a record of that name and of kind named, whatever shellPID and type the
\* request carries and whatever is stored under that name
C22_ExplicitNameIsNamed ==
    [][\A p \in Procs :
          (ApiResolvedNow(p) /\ opts'[p].sessionName # NoName)
          => /\ Branch(opts'[p]) = "named"
             /\ returned'[p].value.name = opts'[p].sessionName
             /\ returned'[p].value.type = "named"]_vars

\* C23 as stated: a resolution without session name, of type shell and with
\* process id a, returns the record named shell-a, of kind shell and with
\* powerShellPID a; and in every state only records of kind shell carry a
\* powerShellPID
C23_ShellResolvesShellKind ==
    /\ [](\A n \in Files :
            (store[n] # NoFile /\ store[n].powerShellPID # AbsentNumber)
            => store[n].type = "shell")
    /\ [][\A p \in Procs :
            (ApiResolvedNow(p) /\ Branch(opts'[p]) = "shell")
            => LET a == opts'[p].shellPID
                   r == returned'[p].value
               IN  /\ r.name = "shell-" \o a
                   /\ r.type = "shell"
                   /\ r.powerShellPID = parseIntPID(a)]_vars

-----------------------------------------------------------------------------
(* The order of the steps of one run *)

\* the place of a position of main in the order of one run
Stage(at) ==
    CASE at \in {"idle", "done"} -> 0
      [] at = "sweep" -> 1
      [] at = "dispatch" -> 2
      [] at \in {"clearAll", "resolve"} -> 3
      [] at = "create" -> 4
      [] at = "query" -> 5
      [] at = "finish" -> 6

\* the process takes a step
Acted(p) == pc'[p] # pc[p] \/ sessions'[p] # sessions[p]

\* the session files a step writes (creates or overwrites)
Written == {n \in Files : store'[n] # store[n] /\ store'[n] # NoFile}

\* C24: within one run the steps follow one order: the run moves forward
\* only (sweep, dispatch, resolution, exchange, save); the sweep has worked
\* off its list when the dispatch begins, and up to then no session file is
\* written; a file is written only by the creation that ends the resolution
\* or by the save after the exchange; the exchange delivers its result only
\* to a run that holds its resolved record; and no step touches more than
\* one session file
C24_RunInOrder ==
    [][\A p \in Procs :
          Acted(p)
          => /\ pc[p] \notin {"idle", "done"}
                  => \/ pc'[p] = "done"
                     \/ Stage(pc'[p]) > Stage(pc[p])
                     \/ pc'[p] = pc[p] /\ pc[p] \in {"sweep", "clearAll"}
             /\ pc'[p] = "dispatch" => sessions'[p] = <<>>
             /\ Stage(pc[p]) < Stage("dispatch") => Written = {}
             /\ Written # {}
                  => \/ pc[p] \in {"dispatch", "resolve", "create"} /\ pc'[p] = "query"
                     \/ pc[p] = "finish" /\ message[p] # Null /\ resolved[p] # Null
             /\ pc'[p] = "query" => resolved'[p] # Null /\ session'[p] # Null
             /\ (message'[p] # message[p] /\ message'[p] # Null)
                  => pc[p] = "query" /\ resolved[p] # Null
             /\ Cardinality({n \in Files : store'[n] # store[n]}) <= 1]_vars

\* two runs, both queries: the first created topic-a; the second swept it,
\* then created global, had its exchange and saved the record
C24_Witness ==
    /\ runs = 2 /\ pc["A"] = "done" /\ pc["B"] = "idle" /\ exitCode["A"] = 0
    /\ nextId = 3
    /\ store["topic-a"] = NoFile
    /\ store["global"] # NoFile /\ store["global"].id = 2
    /\ store["global"].type = "global" /\ store["global"].messageCount >= 1

-----------------------------------------------------------------------------
(* The resume token *)

\* the estimated cost of a result message, 0 without usage
ReportedCost(m) ==
    IF m.usage = Null THEN 0
    ELSE m.usage.input_tokens * costPer1kInput + m.usage.output_tokens * costPer1kOutput

\* C25: the save that ends an exchange with history persists, under the name
\* of the resolved record, the session id of the init message of that
\* exchange, whether the record as resolved had a session id or not, and
\* counters that are those of the record as resolved plus the turns, tokens
\* and cost of the result message of that exchange
C25_SavePersistsEngineToken ==
    [][\A p \in Procs :
          SavedNow(p)
          => LET saved == PersistedNext(resolved[p].name)
             IN  /\ store'[resolved[p].name] # NoFile
                 /\ saved.sdkSessionId = SessionId[p]
                 /\ saved.sdkSessionId # Undefined
                 /\ saved.messageCount = resolved[p].messageCount + message[p].num_turns
                 /\ saved.totalTokens = resolved[p].totalTokens + ReportedTokens(message[p])
                 /\ saved.totalCost = resolved[p].totalCost + ReportedCost(message[p])]_vars

\* the second of two runs loaded global after the first had saved it with
\* the session id T1 and 50 tokens, and has saved it with T2 and 100 tokens
C25_Witness ==
    /\ runs = 2 /\ pc["A"] = "done" /\ pc["B"] = "done"
    /\ store["global"] # NoFile
    /\ store["global"].sdkSessionId = SessionId["B"]
    /\ store["global"].messageCount = 2
    /\ store["global"].totalTokens = 100

\* C26: the query is submitted with a resume option exactly when the
\* resolved record has a session id and --no-history is not given, and the
\* option is then the session id of the record as resolved; a resolution
\* that loads the record stored under the name (no deletion and no forced
\* new session since its last save) submits, unless --no-history is given,
\* the session id that save persisted, and none when the file has none
C26_ResumesWithStoredToken ==
    [][\A p \in Procs :
          ResolvedNow(p)
          => LET n == TargetName(QuerySelection(p))
                 sent == sdkOptions'[p].resume
             IN  /\ sent # Undefined
                      <=> (resolved'[p].sdkSessionId # Undefined /\ ~opts[p].noHistory)
                 /\ sent # Undefined => sent = resolved'[p].sdkSessionId
                 /\ (pc[p] # "create" /\ ~SkipsLoad(QuerySelection(p)) /\ ~opts[p].noHistory)
                      => /\ HasToken(store[n]) => sent = store[n].sdkSessionId
                         /\ ~HasToken(store[n]) => sent = Undefined
                 /\ (pc[p] = "create" \/ SkipsLoad(QuerySelection(p)))
                      => sent = Undefined]_vars

\* a query on global has been submitted with the session id that the
\* exchange of another run persisted
C26_Witness ==
    /\ pc["B"] = "query" /\ ~opts["B"].noHistory
    /\ resolved["B"].name = "global"
    /\ sdkOptions["B"].resume = SessionId["A"]
    /\ store["global"] # NoFile /\ store["global"].sdkSessionId = SessionId["A"]

-----------------------------------------------------------------------------
(* The retry slot *)

\* executeQuery returns in this step and main exits with its exit code
ReturnedNow(p) == pc[p] \in {"query", "finish"} /\ pc'[p] = "done"

\* C27: when executeQuery returns after an exchange whose result message
\* reports an error, or returns a failure for any reason (the exchange or
\* the save threw), the exit code is not 0 and the retry slot of the process
\* holds the question of that exchange in the very state in which the exit
\* code appears; when it returns success the result message reported no
\* error and the retry slot is as it was
C27_FailureRemembersQuestion ==
    [][\A p \in Procs :
          ReturnedNow(p)
          => /\ (message[p] # Null /\ message[p].is_error)
                  => /\ exitCode'[p] = 1
                     /\ lastFailedQuestion'[p] = opts[p].question
             /\ exitCode'[p] # 0 => lastFailedQuestion'[p] = opts[p].question
             /\ exitCode'[p] = 0
                  => /\ message[p] # Null /\ ~message[p].is_error
                     /\ lastFailedQuestion'[p] = lastFailedQuestion[p]]_vars

\* an exchange ended with an error result: its record was saved with the two
\* turns of that result, the run has exited with 1 and the slot holds the
\* question
C27_Witness ==
    /\ runs = 1 /\ pc["A"] = "done" /\ exitCode["A"] = 1
    /\ lastFailedQuestion["A"] = "q1"
    /\ store["global"] # NoFile /\ store["global"].messageCount = 2

\* C28: a run of --retry whose retry slot is empty ends at the dispatch with
\* exit code 1: it loads and creates no session, writes no file and submits
\* no query
C28_EmptyRetryStops ==
    [][\A p \in Procs :
          (pc[p] = "dispatch" /\ opts[p].cmd = "retry"
             /\ lastFailedQuestion[p] = NullString /\ pc'[p] # pc[p])
          => /\ pc'[p] = "done"
             /\ exitCode'[p] = 1
             /\ store' = store /\ nextId' = nextId
             /\ resolved'[p] = Null /\ session'[p] = Null
             /\ sdkOptions'[p] = Null /\ message'[p] = Null]_vars

\* a run of --retry stands at the dispatch with an empty slot, while the run
\* that failed on a question has exited with 1 and held that question
C28_Witness ==
    /\ pc["A"] = "dispatch" /\ opts["A"].cmd = "retry"
    /\ lastFailedQuestion["A"] = NullString
    /\ pc["B"] = "done" /\ exitCode["B"] = 1 /\ lastFailedQuestion["B"] = "q1"

-----------------------------------------------------------------------------
(* Storage failures *)

\* C29 as stated: a saveSession whose write is rejected and a deleteSession
\* whose unlink is rejected although the file is there do not return a
\* normal result to their caller; and deleteSession returns false only when
\* no file of that name exists
C29_StorageFailureSurfaces ==
    [][\A p \in Procs : \A n \in DiskNames :
          /\ ApiSaveSessionFails(p, n) => returned'[p].value # Null
          /\ ApiDeleteSessionFails(p, n) => returned'[p].value \notin BOOLEAN
          /\ (ApiDeleteSessionFails(p, n) /\ returned'[p].value = FALSE)
               => store[n] = NoFile]_vars

-----------------------------------------------------------------------------
(* The listing *)

\* C30 as stated: listAllSessions returns every record whose file parses,
\* for every session name, exactly once, and nothing else; the list is in
\* order of lastUsed, latest first; files that are missing or do not parse
\* are left out without an error; and without the sessions directory the
\* list is empty
C30_ListsEveryParseableRecord ==
    [][\A p \in Procs :
          ApiListAllSessions(p)
          => LET list == returned'[p].value
             IN  /\ \A n \in DiskNames :
                      loadSessionFromDisk(store, n) # Null
                      => Cardinality({i \in DOMAIN list :
                                         list[i] = loadSessionFromDisk(store, n)}) = 1
                 /\ \A i \in DOMAIN list :
                      \E n \in DiskNames : list[i] = loadSessionFromDisk(store, n)
                 /\ \A i, j \in DOMAIN list :
                      i < j => list[i].lastUsed >= list[j].lastUsed
                 /\ ~dirs => list = <<>>]_vars

-----------------------------------------------------------------------------
(* The active session of a SessionManager *)

\* the name of the record activeSession points to, NoName for null
ActiveName(active, s) == IF active = Null THEN NoName ELSE s.name

\* C31: when getActiveSession returns a record, activeSession is that
\* record; when deleteSession(n), called from outside or by the sweep,
\* removes the file n, activeSession does not name n afterwards and is null
\* if it named n before; and a deleteSession of a name that activeSession
\* does not carry leaves activeSession and its record as they were
C31_ActiveFollowsResolveAndDelete ==
    [][\A p \in Procs :
          /\ ApiResolvedNow(p)
               => /\ activeSession'[p] = Ref
                  /\ session'[p] = returned'[p].value
          /\ \A n \in Files :
               (\/ ApiDeleteSession(p, n)
                \/ ApiCleanupDelete(p) /\ Head(sessions[p]) = n)
               => /\ store[n] # NoFile
                       => /\ store'[n] = NoFile
                          /\ ActiveName(activeSession'[p], session'[p]) # n
                          /\ ActiveName(activeSession[p], session[p]) = n
                               => activeSession'[p] = Null
                  /\ ActiveName(activeSession[p], session[p]) # n
                       => /\ activeSession'[p] = activeSession[p]
                          /\ session'[p] = session[p]]_vars

\* a SessionManager has deleted the record it had resolved and holds no
\* active session, while the other still holds the one it resolved
C31_Witness ==
    /\ returned["A"] # Null /\ returned["A"].call = "deleteSession"
    /\ returned["A"].value = TRUE
    /\ session["A"] # Null /\ activeSession["A"] = Null
    /\ store[session["A"].name] = NoFile
    /\ activeSession["B"] = Ref /\ session["B"].name # session["A"].name

-----------------------------------------------------------------------------
(* The directories *)

\* C32 as stated: starting without the directories, whichever method of the
\* SessionManager is called first, the sessions directory exists before a
\* session file is read or written, so the createSession of a resolution
\* writes its record and returns it; and the mkdir of ensureDirectories
\* completes also when another process has created the directories since
\* the access was tried
C32_DirectoriesBeforeRecords ==
    [][\A p \in Procs :
          /\ (ApiCreateSession(p) \/ \E sel \in Selections : ApiGetActiveSession(p, sel))
               => dirs
          /\ ApiCreateSession(p)
               => /\ returned'[p].value # Thrown("ENOENT")
                  /\ store'[TargetName(opts[p])] # NoFile
          /\ ApiEnsureMkdir(p) => dirs' /\ pc'[p] = "apiLoad"]_vars

-----------------------------------------------------------------------------
(* Bulk clear *)

\* the names under which a record is stored
Records(st) == {n \in DOMAIN st : loadSessionFromDisk(st, n) # Null}

\* no other process runs or has run --clear-all
ClearsAlone(p) ==
    \A q \in Procs \ {p} : returned[q] = Null \/ returned[q].call # "clearAll"

\* C33 as stated: when no other process writes, --clear-all counts from 0,
\* counts one more for each record that leaves the store, and when it ends
\* no record of any kind or age is left, so that the count it reports is the
\* number of records there were
C33_ClearAllEmptiesStore ==
    [][\A p \in Procs :
          ClearsAlone(p)
          => /\ DiskClearAllList(p)
                  => /\ returned'[p].value = 0
                     /\ pc'[p] = "api" => Records(store') = {}
             /\ DiskClearAllDelete(p)
                  => /\ Cardinality(Records(store')) + returned'[p].value
                          = Cardinality(Records(store)) + returned[p].value
                     /\ pc'[p] = "api" => Records(store') = {}]_vars

-----------------------------------------------------------------------------
(* What the sweep changes *)

\* 1 when the file n is there before the step and gone after it, else 0
Removed(n) == IF store[n] # NoFile /\ store'[n] = NoFile THEN 1 ELSE 0

\* C34: with auto-cleanup switched off cleanupExpiredSessions selects
\* nothing, changes no file and returns 0; switched on, it starts its count
\* at 0 and changes no file up to its loop, and each iteration of the loop
\* removes at most the file of the record it selected, adds 1 to the count
\* exactly when that file was there and is gone, and leaves every other
\* file as it was
C34_SweepCountsWhatItRemoves ==
    [][\A p \in Procs :
          /\ ApiEnsureAccess(p) => store' = store /\ returned'[p].value = 0
          /\ ApiEnsureMkdir(p) => store' = store /\ returned'[p].value = 0
          /\ ApiLoadAndList(p)
               => /\ store' = store /\ returned'[p].value = 0
                  /\ ~LoadedConfig.autoCleanup
                       => sessions'[p] = <<>> /\ pc'[p] = "api"
          /\ ApiCleanupDelete(p)
               => LET n == Head(sessions[p])
                  IN  /\ config.autoCleanup
                      /\ returned'[p].value = returned[p].value + Removed(n)
                      /\ store[n] = NoFile => store'[n] = NoFile
                      /\ \A m \in Files \ {n} : store'[m] = store[m]]_vars

\* a sweep has returned 1: it removed the named record that had expired and
\* left the global record, which it did not select, in the store
C34_Witness ==
    /\ returned["A"] # Null /\ returned["A"].call = "cleanupExpiredSessions"
    /\ returned["A"].value = 1 /\ pc["A"] = "api"
    /\ store["topic-a"] = NoFile
    /\ store["global"] # NoFile /\ store["global"].type = "global"

-----------------------------------------------------------------------------
(* What an exchange changes *)

\* C35: the record a resolution returns is the one persisted under its name
\* at that moment; the exchange itself changes no file; and the save that
\* ends an exchange with history writes, under that name, a record with the
\* id, name, kind, created time and process id of the record as resolved
\* (only lastUsed, the counters and the session id may differ), and leaves
\* the file of every other name as it was
C35_ExchangeKeepsIdentity ==
    [][\A p \in Procs :
          /\ ResolvedNow(p)
               => store'[resolved'[p].name] = Stringify(resolved'[p])
          /\ (pc[p] = "query" /\ pc'[p] = "finish") => store' = store
          /\ SavedNow(p)
               => LET n == resolved[p].name
                      saved == PersistedNext(n)
                  IN  /\ saved.id = resolved[p].id
                      /\ saved.name = n
                      /\ saved.type = resolved[p].type
                      /\ saved.created = resolved[p].created
                      /\ saved.powerShellPID = resolved[p].powerShellPID
                      /\ saved.active = resolved[p].active
                      /\ \A m \in Files \ {n} : store'[m] = store[m]]_vars

\* the global record was created at time 0 and saved after an exchange at
\* time 1: created is still 0; the record of topic-a is in the store beside it
C35_Witness ==
    /\ store["global"] # NoFile /\ store["global"].id = 1
    /\ store["global"].created = toISOString(0)
    /\ store["global"].lastUsed = toISOString(1)
    /\ store["global"].messageCount >= 1
    /\ store["topic-a"] # NoFile

-----------------------------------------------------------------------------
(* Session commands of a new process *)

\* the active session as getCurrentSession returns it
CurrentSession(p) == IF activeSession[p] = Null THEN Null ELSE session[p]

-----------------------------------------------------------------------------
(* The sweep and the resolution of one run, on a directory as found *)

\* --session <name> of a query: the selection executeQuery passes on
DiskSelections ==
    {[sessionName |-> n, shellPID |-> NoName, type |-> "auto", forceNew |-> FALSE] :
        n \in {"topic-a", "v1.jsonl"}}

NextStale ==
    \E p \in Procs :
        \/ ApiCleanupList(p)
        \/ ApiCleanupDelete(p)
        \/ \E sel \in DiskSelections : ApiGetActiveSession(p, sel)
        \/ ApiCreateSession(p)

SpecStale == InitDisk /\ [][NextStale]_vars

\* the file of n holds a Named record that the sweep would delete now
Stale(n) ==
    /\ loadSessionFromDisk(store, n) # Null
    /\ loadSessionFromDisk(store, n).type = "named"
    /\ shouldDelete(loadSessionFromDisk(store, n), LoadedConfig, now)

\* the last call of p that returned is the sweep
Swept(p) ==
    /\ pc[p] = "api"
    /\ returned[p] # Null
    /\ returned[p].call = "cleanupExpiredSessions"

\* C37: with auto-cleanup on, once the sweep of a process has returned no
\* file holds a Named record older than the threshold, so the resolution of
\* --session <name> that follows it never returns such a record: what it
\* returns was last used within the threshold or is new
C37_ExpiredIsNotResumed ==
    /\ [](\A p \in Procs : \A n \in DiskNames :
            (Swept(p) /\ LoadedConfig.autoCleanup) => ~Stale(n))
    /\ [][\A p \in Procs : \A sel \in DiskSelections :
            (Swept(p) /\ ApiGetActiveSession(p, sel) /\ pc'[p] = "api")
              => ~shouldDelete(returned'[p].value, LoadedConfig, now)]_vars

-----------------------------------------------------------------------------
(* An exchange that throws *)

\* the exchange of p throws in this step
ThrownNow(p) == Holding(p) /\ pc'[p] = "done" /\ ~(pc[p] = "finish" /\ Finish(p))

\* C38: from the resolution to a throw of the exchange the process writes no
\* file: the resolution leaves the record it returns in the store, the
\* handling of the engine's events changes the record in memory only, and the
\* throw, before or after those events, leaves every file as it is and ends
\* the run with exit code 1; what the store holds under the name is what the
\* resolution (or another process since) put there
C38_ThrowSavesNothing ==
    [][\A p \in Procs :
          /\ ResolvedNow(p)
               => store'[resolved'[p].name] = Stringify(resolved'[p])
          /\ (pc[p] = "query" /\ pc'[p] = "finish")
               => /\ store' = store
                  /\ session'[p].messageCount >= resolved[p].messageCount
          /\ ThrownNow(p)
               => /\ store' = store
                  /\ exitCode'[p] = 1]_vars

\* a first run on topic-a has thrown: the record is in the store as created,
\* with no turn counted and no session id, and the question is remembered
C38_Witness ==
    /\ runs = 1
    /\ pc["A"] = "done"
    /\ exitCode["A"] = 1
    /\ lastFailedQuestion["A"] = "q1"
    /\ store["topic-a"] # NoFile
    /\ store["topic-a"].messageCount = 0
    /\ ~HasToken(store["topic-a"])
    /\ store["topic-a"].lastUsed = store["topic-a"].created
    /\ now = 1

-----------------------------------------------------------------------------
(* Deletion under a running exchange *)

\* q deletes in this step the record that p resolved and still holds
DeletesUnder(q, p) ==
    /\ Holding(p)
    /\ store[resolved[p].name] # NoFile
    /\ store'[resolved[p].name] = NoFile
    /\ ClearCommand(q) \/ ClearAllDelete(q) \/ CleanupDelete(q)

\* C39: when another process deletes, by --clear, --clear-all or its sweep,
\* the record that p holds, the deleting run goes on without an error (a
\* --clear or a finished --clear-all exits with 0); and when p then saves
\* with the file gone, the save puts a record back under the name with the
\* id p resolved, the counters and the session id p has in memory, and the
\* exit code of p is that of the engine's result alone
C39_SaveRecreatesDeleted ==
    [][\A p \in Procs :
          /\ \A q \in Procs \ {p} :
                DeletesUnder(q, p)
                  => /\ exitCode'[q] \in {Running, 0}
                     /\ ClearCommand(q) => exitCode'[q] = 0
                     /\ UNCHANGED <<session[p], resolved[p], pc[p]>>
          /\ (SavedNow(p) /\ store[session[p].name] = NoFile)
                => LET n == session[p].name
                       saved == PersistedNext(n)
                   IN  /\ store'[n] # NoFile
                       /\ n = resolved[p].name
                       /\ saved.id = resolved[p].id
                       /\ saved.messageCount = session[p].messageCount
                       /\ saved.totalTokens = session[p].totalTokens
                       /\ saved.totalCost = session[p].totalCost
                       /\ saved.sdkSessionId = session[p].sdkSessionId
                       /\ saved.sdkSessionId = SessionId[p]
                       /\ exitCode'[p] = IF message[p].is_error THEN 1 ELSE 0]_vars

\* process A is about to save topic-a after a successful exchange; the file
\* is gone and process B, which deleted it, has exited with 0
C39_Witness ==
    /\ pc["A"] = "finish"
    /\ ~opts["A"].noHistory
    /\ ~message["A"].is_error
    /\ resolved["A"].name = "topic-a"
    /\ store["topic-a"] = NoFile
    /\ pc["B"] = "done"
    /\ exitCode["B"] = 0

-----------------------------------------------------------------------------
(* Termination of a run *)

\* the steps of a run of p after its start: each is the return of an awaited
\* file operation or the end or the throw of the engine's stream
RunStep(p) ==
    \/ CleanupDelete(p)
    \/ ConfigCommand(p)
    \/ ShowCommand(p)
    \/ ClearCommand(p)
    \/ ClearAllList(p)
    \/ ClearAllDelete(p)
    \/ ExportCommand(p)
    \/ RetryCommand(p)
    \/ NoCommand(p)
    \/ ResolveLoad(p)
    \/ ResolveCreate(p)
    \/ EngineMessages(p)
    \/ EngineThrow(p)
    \/ Finish(p)

\* the store as earlier runs have left it: for each session name no file, or
\* a record last used at time 0
LiveFiles(n) ==
    {NoFile, Stringify(NewSession(DiskId(n), n, DiskType(n), DiskPID(n), 0))}

\* the last two invocations of the CLI on such a store
InitLive ==
    /\ store \in [Files -> UNION {LiveFiles(n) : n \in Files}]
    /\ \A n \in Names : store[n] \in LiveFiles(n)
    /\ \A n \in Files \ Names : store[n] = NoFile
    /\ config \in UserConfigs
    /\ dirs = TRUE
    /\ now = 0
    /\ nextId = 6
    /\ runs = MaxRuns - 2
    /\ pc = [p \in Procs |-> "idle"]
    /\ opts = [p \in Procs |-> Null]
    /\ session = [p \in Procs |-> Null]
    /\ activeSession = [p \in Procs |-> Null]
    /\ lastFailedQuestion = [p \in Procs |-> NullString]
    /\ sessions = [p \in Procs |-> <<>>]
    /\ message = [p \in Procs |-> Null]
    /\ exitCode = [p \in Procs |-> Running]
    /\ resolved = [p \in Procs |-> Null]
    /\ sdkOptions = [p \in Procs |-> Null]
    /\ firstId = [n \in Files |-> 0]
    /\ returned = [p \in Procs |-> Null]

\* The runs of the CLI when every awaited operation of a started run returns
\* and the stream of the engine ends or throws; whether and when a run is
\* started, and the clock, are left open
SpecLive == InitLive /\ [][Next]_vars /\ \A p \in Procs : WF_vars(RunStep(p))

\* handleConfigCommands, handleSessionCommands or executeQuery acts in this step
ConfigHandler(p) == ConfigCommand(p)
SessionHandler(p) ==
    ShowCommand(p) \/ ClearCommand(p) \/ ClearAllList(p) \/ ClearAllDelete(p)
        \/ ExportCommand(p)
QueryHandler(p) ==
    ResolveLoad(p) \/ ResolveCreate(p) \/ EngineMessages(p) \/ EngineThrow(p)
        \/ Finish(p)

\* the run of p has started and has not exited
InRun(p) == pc[p] \notin {"idle", "done"}

\* the run of p exits in this step
ExitsNow(p) == pc'[p] = "done" /\ (InRun(p) \/ Start(p))

\* every started run exits, and an exited run has an exit code
RunTerminates ==
    /\ \A p \in Procs : InRun(p) ~> (pc[p] = "done")
    /\ [](\A p \in Procs : pc[p] = "done" => exitCode[p] \in {0, 1})

\* a handler is entered from the dispatch only, a run passes the dispatch
\* once, and a step of one handler is never followed in the same run by a
\* step of another: a run executes at most one of the three
AtMostOneHandler ==
    [][\A p \in Procs :
          /\ (pc'[p] = "dispatch" /\ pc[p] # "dispatch")
               => pc[p] \in {"idle", "done", "sweep"}
          /\ ConfigHandler(p) => pc[p] = "dispatch" /\ pc'[p] = "done"
          /\ SessionHandler(p)
               => /\ pc[p] \in {"dispatch", "clearAll"}
                  /\ pc'[p] \in {"clearAll", "done"}
          /\ QueryHandler(p)
               => /\ pc[p] \in {"dispatch", "resolve", "create", "query", "finish"}
                  /\ pc'[p] \in {"create", "query", "finish", "done"}]_vars

\* C40 as stated: every started run exits with an exit code, and the step
\* in which a run exits is the last step of the configuration handler, of
\* the session handler or of the query: each run has executed exactly one
C40_RunEndsAfterExactlyOne ==
    /\ RunTerminates
    /\ AtMostOneHandler
    /\ [][\A p \in Procs :
            ExitsNow(p)
              => ConfigHandler(p) \/ SessionHandler(p) \/ QueryHandler(p)]_vars

\* C40: every started run exits with an exit code 0 or 1, and it executes at
\* most one of configuration handler, session handler and query; the runs
\* of --help, --version, --retry with nothing to retry and of no input exit
\* without executing any of them
C40_RunEndsAfterAtMostOne ==
    /\ RunTerminates
    /\ AtMostOneHandler
    /\ [][\A p \in Procs :
            (Start(p) /\ pc'[p] = "done") \/ NoCommand(p)
                \/ (RetryCommand(p) /\ pc'[p] = "done")
              => ~(ConfigHandler(p) \/ SessionHandler(p) \/ QueryHandler(p))]_vars

\* both slots have run to the end: one exited with 0, the other with 1, and
\* the runs have left a record behind
C40_Witness ==
    /\ pc["A"] = "done" /\ pc["B"] = "done"
    /\ exitCode["A"] = 0 /\ exitCode["B"] = 1
    /\ runs = MaxRuns
    /\ store["global"] # NoFile
    /\ store["global"].messageCount >= 1

====
